---- MODULE Spec2Model ----
(***************************************************************************)
(* Model of the restaurant reservation agent: the flat-file record store   *)
(* (app/storage/file_storage.py), the action registry with the capacity    *)
(* ledger (app/agent/tools.py), the network API's reservation endpoints    *)
(* (app/backend/main.py) and the agent orchestrator (app/agent/core.py).   *)
(*                                                                         *)
(* Python values are modelled as follows.  A dict is a TLA+ record whose   *)
(* DOMAIN is the set of keys present, so an absent key is a key outside    *)
(* the DOMAIN.  A list is a sequence.  Optional results use the record     *)
(* None.  Free text that no branch of the code reads (special_requests)    *)
(* and wall-clock timestamps (created_at, timestamp) are left out of the   *)
(* records.                                                                *)
(***************************************************************************)
EXTENDS Integers, Sequences, FiniteSets, TLC

VARIABLES
    restaurants,           \* content of data/restaurants.json
    users,                 \* content of data/users.json
    reservations,          \* content of data/reservations.json
    tool_name,             \* the operation of the last completed request
    parameters,            \* its parameter bag (or request body)
    tool_response,         \* what it returned
    pc,                    \* per concurrent caller: position in _make_reservation
    call,                  \* per concurrent caller: its parameter bag
    snap,                  \* per concurrent caller: the list add_reservation read
    ret,                   \* per concurrent caller: the returned envelope
    seed,                  \* the reservations the concurrent callers started from
    conversation_history,  \* Agent.conversation_history
    message,               \* the text of the last process_message call
    llm_response,          \* what _call_llm returned in that call
    outcome,               \* how that call ended: returned text or raised
    api_key,               \* settings.LLM_API_KEY
    stage,                 \* per chat request: how far its handler has come
    prompt,                \* the prompt _create_prompt built last
    llm_result,            \* what the language-model service did in the last call
    restaurant_ids,        \* RestaurantRecommender.restaurant_ids
    restaurant_vectors,    \* RestaurantRecommender.restaurant_vectors
    recommended            \* a get_recommendations call made since the store last changed

storeVars == <<restaurants, users, reservations>>
lastVars  == <<tool_name, parameters, tool_response>>
concVars  == <<pc, call, snap, ret, seed>>
agentVars == <<conversation_history, message, llm_response, outcome>>
chatVars  == <<api_key, stage, prompt, llm_result>>
recVars   == <<restaurant_ids, restaurant_vectors, recommended>>
vars == <<restaurants, users, reservations, tool_name, parameters,
          tool_response, pc, call, snap, ret, seed, conversation_history, message,
          llm_response, outcome, api_key, stage, prompt, llm_result,
          restaurant_ids, restaurant_vectors, recommended>>

(***************************************************************************)
(* Bounds of the model and the input domains.                              *)
(***************************************************************************)
MaxReservations == 2
MaxMessages == 2
MaxChats == 4

None == [none |-> TRUE]

\* party_size defaults to 2 in _check_availability
DefaultPartySize == 2

PartySizes == {1, 2, 3}
UserIds == {1, 8}
ReservationIds == 1..(MaxReservations + 1)

\* datetime.strptime(f"{date} {time}", "%Y-%m-%d %H:%M") on the inputs above:
\* TRUE when it returns, FALSE when it raises ValueError.
strptime(date, time) ==
    /\ date \in {"2024-06-01", "2024-06-02"}   \* not "tomorrow"
    /\ time \in {"19:00", "20:00"}             \* not "7pm"

\* The restaurants and users the store holds from the start
\* (scripts/populate_db.py adds restaurants; capacities are scaled down,
\* ratings are in tenths and a menu is the set of its item names).
InitRestaurants ==
    << [id |-> 1, name |-> "La Bella Italia", capacity |-> 3,
        cuisine |-> "Italian", location |-> "Downtown", price_range |-> "$$$",
        rating |-> 45,
        features |-> {"parking", "outdoor_seating", "bar", "private_rooms"},
        menu |-> {"Bruschetta"}],
       [id |-> 2, name |-> "Sakura Japanese", capacity |-> 4,
        cuisine |-> "Japanese", location |-> "Midtown", price_range |-> "$$$$",
        rating |-> 48,
        features |-> {"parking", "sushi_bar", "private_rooms"},
        menu |-> {"Ramen"}] >>

InitUsers ==
    << [id |-> 1, name |-> "Ann", email |-> "ann@example.com", phone |-> "555-0001",
        preferences |-> [location |-> "Downtown", occasion |-> "date"]],
       [id |-> 2, name |-> "Bob", email |-> "bob@example.com", phone |-> "555-0002",
        preferences |-> <<>>] >>

(***************************************************************************)
(* Python helpers.                                                         *)
(***************************************************************************)
Has(d, k) == k \in DOMAIN d

\* truth value of d.get(k) for an int-valued and for a str-valued key
TruthyInt(d, k) == Has(d, k) /\ d[k] # 0
TruthyStr(d, k) == Has(d, k) /\ d[k] # ""

\* {**a, **b}
Merge(a, b) ==
    [k \in (DOMAIN a) \cup (DOMAIN b) |-> IF k \in DOMAIN b THEN b[k] ELSE a[k]]

Without(d, k) == [x \in (DOMAIN d) \ {k} |-> d[x]]

RECURSIVE SumPartySize(_)
SumPartySize(rs) ==
    IF rs = <<>> THEN 0 ELSE Head(rs).party_size + SumPartySize(Tail(rs))

RECURSIVE MaxId(_)
MaxId(rs) ==
    IF rs = <<>> THEN 0
    ELSE LET m == MaxId(Tail(rs)) IN IF Head(rs).id > m THEN Head(rs).id ELSE m

\* seq[:n]
Take(seq, n) == SubSeq(seq, 1, IF Len(seq) < n THEN Len(seq) ELSE n)

Error(msg) == [status |-> "error", message |-> msg]

(***************************************************************************)
(* FileStorage.                                                            *)
(***************************************************************************)
\* next((r for r in restaurants if r["id"] == restaurant_id), None)
get_restaurant(rests, restaurant_id) ==
    LET hit == SelectSeq(rests, LAMBDA r : r.id = restaurant_id)
    IN IF hit = <<>> THEN None ELSE Head(hit)

get_user(us, user_id) ==
    LET hit == SelectSeq(us, LAMBDA u : u.id = user_id)
    IN IF hit = <<>> THEN None ELSE Head(hit)

get_reservation(rs, reservation_id) ==
    LET hit == SelectSeq(rs, LAMBDA r : r.id = reservation_id)
    IN IF hit = <<>> THEN None ELSE Head(hit)

\* add_reservation applied to the list `rs` it read: the record it builds
\* and the list it writes back.
add_reservation(rs, reservation_data) ==
    LET reservation ==
            Merge(Merge([id |-> MaxId(rs) + 1], reservation_data),
                  [status |-> "confirmed"])
    IN [reservation |-> reservation, reservations |-> Append(rs, reservation)]

\* update_reservation applied to the list `rs` it read: the first record
\* with the id is merged with update_data and the list is written back;
\* without a match nothing is written and None is returned.
update_reservation(rs, reservation_id, update_data) ==
    LET idx == {i \in 1..Len(rs) : rs[i].id = reservation_id}
    IN IF idx = {} THEN [reservation |-> None, reservations |-> rs]
       ELSE LET i == CHOOSE j \in idx : \A k \in idx : j <= k
                updated == Merge(rs[i], update_data)
            IN [reservation |-> updated,
                reservations |-> [rs EXCEPT ![i] = updated]]

\* add_restaurant applied to the list `rests` it read
add_restaurant(rests, restaurant_data) ==
    LET restaurant == Merge([id |-> MaxId(rests) + 1], restaurant_data)
    IN [restaurant |-> restaurant, restaurants |-> Append(rests, restaurant)]

\* the first user with that email, else None
get_user_by_email(us, email) ==
    LET hit == SelectSeq(us, LAMBDA u : Has(u, "email") /\ u.email = email)
    IN IF hit = <<>> THEN None ELSE Head(hit)

\* The value under "cuisine" in a preferences dict is the one value whose
\* type the store tests, so it carries its Python type.
List(items) == [type |-> "list", items |-> items]
Str(text) == [type |-> "str", text |-> text]

\* isinstance(value, list)
IsList(v) == v.type = "list"

\* add_user applied to the list `us` it read: the ValueError it raises, or
\* the record it builds and the list it writes back.  The only checks are
\* the three required fields and the shape of the preferences.
add_user(us, user_data) ==
    LET missing == {f \in {"name", "email", "phone"} : ~Has(user_data, f)}
        user == Merge([id |-> MaxId(us) + 1], user_data)
    IN
    IF missing # {}
    THEN [raised |-> TRUE, users |-> us,
          str |-> "Missing required field: " \o
                  (IF "name" \in missing THEN "name"
                   ELSE IF "email" \in missing THEN "email" ELSE "phone")]
    ELSE IF Has(user_data, "preferences") /\ user_data.preferences = None
    THEN [raised |-> TRUE, users |-> us, str |-> "preferences must be a dictionary"]
    ELSE IF /\ Has(user_data, "preferences")
            /\ Has(user_data.preferences, "cuisine")
            /\ ~IsList(user_data.preferences.cuisine)
    THEN [raised |-> TRUE, users |-> us, str |-> "preferences.cuisine must be a list"]
    ELSE [raised |-> FALSE, user |-> user, users |-> Append(us, user)]

(***************************************************************************)
(* RestaurantRecommender (app/agent/recommender.py).                       *)
(***************************************************************************)
\* The terms TfidfVectorizer(stop_words='english') keeps of a text: its
\* lower-cased words of two letters or more that are no English stop word.
\* A price tier ("$$$") holds no word.
tokens(text) ==
    CASE text = "La Bella Italia" -> {"la", "bella", "italia"}
      [] text = "Sakura Japanese" -> {"sakura", "japanese"}
      [] text = "Noodle" -> {"noodle"}
      [] text = "noodle" -> {"noodle"}
      [] text = "Italian" -> {"italian"}
      [] text = "ITALIAN" -> {"italian"}
      [] text = "Japanese" -> {"japanese"}
      [] text = "Downtown" -> {"downtown"}
      [] text = "Midtown" -> {"midtown"}
      [] text = "Bruschetta" -> {"bruschetta"}
      [] text = "Ramen" -> {"ramen"}
      [] text = "date" -> {"date"}
      [] text = "True" -> {"true"}
      [] OTHER -> {}

\* recommender.py:25-33: the terms of the text built for one restaurant;
\* every feature a restaurant lists is switched on, so its value prints as
\* "True"
restaurant_text(r) ==
    tokens(r.name) \cup tokens(r.cuisine) \cup tokens(r.location)
        \cup tokens(r.price_range)
        \cup (IF r.features = {} THEN {} ELSE tokens("True"))
        \cup UNION {tokens(item) : item \in r.menu}

\* TfidfVectorizer.fit_transform: a sparse matrix with one row per text and
\* one column per term of the vocabulary; a row is kept as the set of the
\* columns where it is not zero
fit_transform(texts) ==
    [vocabulary |-> UNION {texts[i] : i \in DOMAIN texts}, rows |-> texts]

\* _update_vectors: the two attributes it assigns
update_vectors(rests) ==
    IF rests = <<>>
    THEN [restaurant_vectors |-> None, restaurant_ids |-> <<>>]
    ELSE [restaurant_vectors |->
              fit_transform([i \in 1..Len(rests) |-> restaurant_text(rests[i])]),
          restaurant_ids |-> [i \in 1..Len(rests) |-> rests[i].id]]

\* RestaurantRecommender.__init__ on a store holding `rests`
RecommenderStart(rests) ==
    /\ restaurant_ids = update_vectors(rests).restaurant_ids
    /\ restaurant_vectors = update_vectors(rests).restaurant_vectors
    /\ recommended = None

\* `not self.restaurant_vectors` (recommender.py:64, 66, 110, 112): the
\* truth value of None is False; a scipy sparse matrix has a truth value
\* only when its shape is (1, 1), and bool() raises ValueError otherwise
truth(vectors) ==
    IF vectors = None
    THEN [raised |-> FALSE, value |-> FALSE]
    ELSE IF Len(vectors.rows) = 1 /\ Cardinality(vectors.vocabulary) = 1
    THEN [raised |-> FALSE, value |-> vectors.rows[1] # {}]
    ELSE [raised |-> TRUE,
          str |-> "The truth value of an array with more than one element is ambiguous. Use a.any() or a.all()."]

\* recommender.py:64-67 and 110-113: the index is rebuilt when the cached
\* vectors or ids are falsy, and only then
ensure_vectors(rests, index) ==
    LET cached == truth(index.restaurant_vectors) IN
    IF cached.raised
    THEN [raised |-> TRUE, str |-> cached.str, index |-> index]
    ELSE IF cached.value /\ index.restaurant_ids # <<>>
    THEN [raised |-> FALSE, empty |-> FALSE, index |-> index]
    ELSE LET fresh == update_vectors(rests)
             rebuilt == truth(fresh.restaurant_vectors)
         IN IF rebuilt.raised
            THEN [raised |-> TRUE, str |-> rebuilt.str, index |-> fresh]
            ELSE [raised |-> FALSE, empty |-> ~rebuilt.value, index |-> fresh]

\* recommender.py:70-84: the stored profile of the user, overridden by each
\* argument that is truthy.  `args` holds the arguments that are not None.
PreferenceFields == {"cuisine_preference", "location", "price_range", "occasion"}

user_preferences(us, args) ==
    LET user == IF TruthyInt(args, "user_id") THEN get_user(us, args.user_id) ELSE None
        stored == IF /\ user # None
                     /\ Has(user, "preferences")
                     /\ user.preferences # None
                     /\ user.preferences # <<>>
                  THEN user.preferences ELSE <<>>
        explicit == [k \in {f \in PreferenceFields : TruthyStr(args, f)} |-> args[k]]
    IN Merge(stored, explicit)

\* _get_user_preferences_vector: the terms of the text joined from the
\* profile (the model's profiles name no dietary restrictions)
preferences_text(profile) ==
    UNION {tokens(profile[k]) : k \in PreferenceFields \cap DOMAIN profile}

\* cosine_similarity(query, matrix).flatten(), in hundredths.  With a
\* vocabulary of one term a row scores 1 when it shares the term with the
\* query and 0 otherwise; matrices of any other shape never come this far
\* (see truth).
cosine_similarity(query, vectors) ==
    [i \in 1..Len(vectors.rows) |->
        IF query \cap vectors.rows[i] # {} THEN 100 ELSE 0]

\* numpy argsort: the positions in ascending order of score; the sort of
\* short arrays is an insertion sort, which keeps equal scores in position
\* order
RECURSIVE argsort_from(_, _)
argsort_from(scores, left) ==
    IF left = {} THEN <<>>
    ELSE LET i == CHOOSE j \in left : \A k \in left :
                      scores[j] < scores[k] \/ (scores[j] = scores[k] /\ j <= k)
         IN <<i>> \o argsort_from(scores, left \ {i})

argsort(scores) == argsort_from(scores, DOMAIN scores)

\* seq[-n:]
Last(seq, n) == SubSeq(seq, IF Len(seq) < n THEN 1 ELSE Len(seq) - n + 1, Len(seq))

\* seq[::-1]
Reversed(seq) == [i \in 1..Len(seq) |-> seq[Len(seq) + 1 - i]]

\* sorted(restaurants, key=lambda x: x['rating'], reverse=True): a stable
\* sort, equal ratings stay in list order
RECURSIVE sorted_by_rating(_)
sorted_by_rating(rests) ==
    IF rests = <<>> THEN <<>>
    ELSE LET i == CHOOSE j \in DOMAIN rests : \A k \in DOMAIN rests :
                      rests[j].rating > rests[k].rating
                          \/ (rests[j].rating = rests[k].rating /\ j <= k)
         IN <<rests[i]>> \o
                sorted_by_rating(SubSeq(rests, 1, i - 1) \o SubSeq(rests, i + 1, Len(rests)))

\* recommender.py:99-104 and 130-135: the stored record of each indexed
\* position, skipping the ids the store no longer resolves
details(rests, ids, positions) ==
    LET found == SelectSeq(positions, LAMBDA i : get_restaurant(rests, ids[i]) # None)
    IN [n \in 1..Len(found) |-> get_restaurant(rests, ids[found[n]])]

\* the default of `limit` in get_recommendations and get_similar_restaurants
DefaultLimit == 5

\* a recommender that answers from the cached index and rebuilds it from
\* the store afterwards
get_recommendations_rebuilding(rests, us, index, args, limit) ==
    LET ready == ensure_vectors(rests, index)
        profile == user_preferences(us, args)
        top_indices ==
            Reversed(Last(argsort(cosine_similarity(preferences_text(profile),
                                                    ready.index.restaurant_vectors)),
                          limit))
    IN
    IF ready.raised
    THEN [raised |-> TRUE, str |-> ready.str, index |-> ready.index]
    ELSE IF ready.empty
    THEN [raised |-> FALSE, value |-> <<>>, index |-> ready.index]
    ELSE IF profile = <<>>
    THEN [raised |-> FALSE, value |-> Take(sorted_by_rating(rests), limit),
          index |-> update_vectors(rests)]
    ELSE [raised |-> FALSE,
          value |-> details(rests, ready.index.restaurant_ids, top_indices),
          index |-> update_vectors(rests)]

\* get_recommendations(**args, limit): what the call returns or raises,
\* and the index it leaves
get_recommendations(rests, us, index, args, limit) ==
    LET ready == ensure_vectors(rests, index)
        profile == user_preferences(us, args)
        top_indices ==
            Reversed(Last(argsort(cosine_similarity(preferences_text(profile),
                                                    ready.index.restaurant_vectors)),
                          limit))
    IN
    IF ready.raised
    THEN [raised |-> TRUE, str |-> ready.str, index |-> ready.index]
    ELSE IF ready.empty
    THEN [raised |-> FALSE, value |-> <<>>, index |-> ready.index]
    ELSE IF profile = <<>>
    THEN [raised |-> FALSE, value |-> Take(sorted_by_rating(rests), limit),
          index |-> ready.index]
    ELSE [raised |-> FALSE,
          value |-> details(rests, ready.index.restaurant_ids, top_indices),
          index |-> ready.index]

\* get_similar_restaurants(restaurant_id, limit): the slice [-limit-1:-1]
\* drops the last position of the ascending order, whichever restaurant
\* holds it
get_similar_restaurants(rests, index, restaurant_id, limit) ==
    LET ready == ensure_vectors(rests, index)
        ids == ready.index.restaurant_ids
        restaurant_idx == CHOOSE i \in DOMAIN ids : ids[i] = restaurant_id
        order == argsort(cosine_similarity(ready.index.restaurant_vectors.rows[restaurant_idx],
                                           ready.index.restaurant_vectors))
        top_indices == Reversed(Last(SubSeq(order, 1, Len(order) - 1), limit))
    IN
    IF ready.raised
    THEN [raised |-> TRUE, str |-> ready.str, index |-> ready.index]
    ELSE IF ready.empty
    THEN [raised |-> FALSE, value |-> <<>>, index |-> ready.index]
    ELSE IF \A i \in DOMAIN ids : ids[i] # restaurant_id
    THEN [raised |-> FALSE, value |-> <<>>, index |-> ready.index]
    ELSE [raised |-> FALSE, value |-> details(rests, ids, top_indices),
          index |-> ready.index]

(***************************************************************************)
(* ToolRegistry: the capacity ledger.                                      *)
(***************************************************************************)
\* the reservations _check_availability counts for a slot
time_slot_reservations(rs, restaurant_id, date, time) ==
    SelectSeq(rs, LAMBDA r : /\ r.restaurant_id = restaurant_id
                             /\ r.date = date
                             /\ r.time = time)

check_availability(rests, rs, p) ==
    LET party_size == IF Has(p, "party_size") THEN p.party_size ELSE DefaultPartySize
    IN
    IF ~(TruthyInt(p, "restaurant_id") /\ TruthyStr(p, "date") /\ TruthyStr(p, "time"))
    THEN Error("restaurant_id, date, and time are required")
    ELSE IF ~strptime(p.date, p.time)
    THEN Error("Invalid date or time format")
    ELSE LET restaurant == get_restaurant(rests, p.restaurant_id) IN
    IF restaurant = None
    THEN Error("Restaurant not found")
    ELSE LET total_reserved ==
                 SumPartySize(time_slot_reservations(rs, p.restaurant_id, p.date, p.time))
             available_capacity == restaurant.capacity - total_reserved
         IN [status |-> "success",
             data |-> [available |-> available_capacity >= party_size,
                       available_capacity |-> available_capacity,
                       restaurant_capacity |-> restaurant.capacity]]

required_fields == {"restaurant_id", "user_id", "date", "time", "party_size"}

\* the dict _make_reservation hands to the store
new_reservation(p) ==
    [restaurant_id |-> p.restaurant_id, user_id |-> p.user_id, date |-> p.date,
     time |-> p.time, party_size |-> p.party_size, status |-> "confirmed"]

\* True when _make_reservation returns before it reaches the store
make_reservation_refused(rests, rs, p) ==
    \/ ~(required_fields \subseteq DOMAIN p)
    \/ check_availability(rests, rs, p).status = "error"
    \/ ~check_availability(rests, rs, p).data.available

\* the envelope of a call that returns before it reaches the store
make_reservation_failure(rests, rs, p) ==
    IF ~(required_fields \subseteq DOMAIN p)
    THEN Error("Missing required fields: ['restaurant_id', 'user_id', 'date', 'time', 'party_size']")
    ELSE check_availability(rests, rs, p)

\* the envelope after add_reservation returned `stored`: reservation_id is
\* what add_reservation returned, which is the stored record
make_reservation_success(p, stored) ==
    [status |-> "success",
     data |-> [reservation_id |-> stored, reservation |-> new_reservation(p)]]

\* a booking that stores the reservation without asking whether the slot
\* has room for it
make_reservation_unchecked(rests, rs, p) ==
    IF ~(required_fields \subseteq DOMAIN p)
    THEN [response |-> make_reservation_failure(rests, rs, p), reservations |-> rs]
    ELSE LET added == add_reservation(rs, new_reservation(p))
         IN [response |-> make_reservation_success(p, added.reservation),
             reservations |-> added.reservations]

\* _make_reservation run without interruption on the store `rs`
make_reservation(rests, rs, p) ==
    IF make_reservation_refused(rests, rs, p)
    THEN [response |-> make_reservation_failure(rests, rs, p), reservations |-> rs]
    ELSE LET added == add_reservation(rs, new_reservation(p))
         IN [response |-> make_reservation_success(p, added.reservation),
             reservations |-> added.reservations]

\* a cancellation that removes the record when it is cancelled already
cancel_reservation_deleting(rs, p) ==
    IF ~TruthyInt(p, "reservation_id")
    THEN [response |-> Error("reservation_id is required"), reservations |-> rs]
    ELSE [response |-> [status |-> "success",
                        message |-> "Reservation cancelled successfully"],
          reservations |->
              IF /\ get_reservation(rs, p.reservation_id) # None
                 /\ get_reservation(rs, p.reservation_id).status = "cancelled"
              THEN SelectSeq(rs, LAMBDA r : r.id # p.reservation_id)
              ELSE update_reservation(rs, p.reservation_id,
                                      [status |-> "cancelled"]).reservations]

\* _cancel_reservation run without interruption on the store `rs`
cancel_reservation(rs, p) ==
    IF ~TruthyInt(p, "reservation_id")
    THEN [response |-> Error("reservation_id is required"), reservations |-> rs]
    ELSE [response |-> [status |-> "success",
                        message |-> "Reservation cancelled successfully"],
          reservations |->
              update_reservation(rs, p.reservation_id, [status |-> "cancelled"]).reservations]

(***************************************************************************)
(* Inputs: the parameter bags and request bodies the callers send.         *)
(***************************************************************************)
\* the slot of the scenarios and one neighbour per coordinate
SlotBags ==
    {[restaurant_id |-> 1, date |-> "2024-06-01", time |-> "19:00"],
     [restaurant_id |-> 2, date |-> "2024-06-01", time |-> "19:00"],
     [restaurant_id |-> 1, date |-> "2024-06-02", time |-> "19:00"],
     [restaurant_id |-> 1, date |-> "2024-06-01", time |-> "20:00"]}

\* an unknown restaurant, an unparsable date, an unparsable time
BadSlotBags ==
    {[restaurant_id |-> 9, date |-> "2024-06-01", time |-> "19:00"],
     [restaurant_id |-> 1, date |-> "tomorrow", time |-> "19:00"],
     [restaurant_id |-> 1, date |-> "2024-06-01", time |-> "7pm"]}

CheckBags ==
    {Merge(s, [party_size |-> n]) : s \in SlotBags, n \in PartySizes}
    \cup {Merge(s, [party_size |-> 2]) : s \in BadSlotBags}
    \cup {[restaurant_id |-> 1, date |-> "2024-06-01", time |-> "19:00"],
          [date |-> "2024-06-01", time |-> "19:00", party_size |-> 2],
          [restaurant_id |-> 1, time |-> "19:00", party_size |-> 2],
          [restaurant_id |-> 0, date |-> "2024-06-01", time |-> "19:00"]}

MakeBags ==
    {Merge(s, [user_id |-> 1, party_size |-> n]) :
        s \in {b \in SlotBags : b.date = "2024-06-01" /\ b.time = "19:00"},
        n \in PartySizes}
    \cup {Merge(s, [user_id |-> 1, party_size |-> 2]) : s \in SlotBags \cup BadSlotBags}
    \cup {[restaurant_id |-> 1, user_id |-> 1, date |-> "2024-06-01", time |-> "19:00"],
          [restaurant_id |-> 1, date |-> "2024-06-01", time |-> "19:00", party_size |-> 1]}

CancelBags ==
    [reservation_id : ReservationIds] \cup {[reservation_id |-> 0], <<>>}

\* ReservationCreate bodies (pydantic checks the types only)
ApiBodies ==
    [restaurant_id : {1, 9}, user_id : UserIds, date : {"2024-06-01"},
     time : {"19:00"}, party_size : {2, 3}]

(***************************************************************************)
(* Requests served one at a time: each action is one whole handler.        *)
(***************************************************************************)
Callers == {1, 2}

Idle ==
    /\ pc = [c \in Callers |-> "idle"]
    /\ call = [c \in Callers |-> <<>>]
    /\ snap = [c \in Callers |-> <<>>]
    /\ ret = [c \in Callers |-> None]

\* Agent.__init__
AgentStart ==
    /\ conversation_history = <<>>
    /\ message = <<>>
    /\ llm_response = <<>>
    /\ outcome = [kind |-> "none"]

\* the chat requests that may arrive
ChatIds == 1..MaxChats

\* no chat request has arrived; the key of the model service is configured
ChatIdle ==
    /\ api_key = "gsk_key"
    /\ stage = [n \in ChatIds |-> "absent"]
    /\ prompt = None
    /\ llm_result = None

Init ==
    /\ restaurants = InitRestaurants
    /\ users = InitUsers
    /\ RecommenderStart(InitRestaurants)
    /\ reservations = <<>>
    /\ tool_name = "none"
    /\ parameters = <<>>
    /\ tool_response = None
    /\ Idle
    /\ seed = <<>>
    /\ AgentStart
    /\ ChatIdle

\* a check_availability that places a hold on the seats it reports free
CheckAvailabilityWithHold(p) ==
    /\ tool_name' = "check_availability"
    /\ parameters' = p
    /\ tool_response' = check_availability(restaurants, reservations, p)
    /\ reservations' =
           IF /\ check_availability(restaurants, reservations, p).status = "success"
              /\ check_availability(restaurants, reservations, p).data.available
              /\ Has(p, "party_size")
              /\ Len(reservations) < MaxReservations
           THEN Append(reservations,
                       Merge(Merge([id |-> MaxId(reservations) + 1, user_id |-> 0], p),
                             [status |-> "pending"]))
           ELSE reservations
    /\ UNCHANGED <<recVars, restaurants, users, concVars, agentVars, chatVars>>

\* execute_tool("check_availability", p)
CheckAvailability(p) ==
    /\ tool_name' = "check_availability"
    /\ parameters' = p
    /\ tool_response' = check_availability(restaurants, reservations, p)
    /\ UNCHANGED <<recVars, storeVars, concVars, agentVars, chatVars>>

\* execute_tool("make_reservation", p)
MakeReservation(p) ==
    /\ Len(make_reservation(restaurants, reservations, p).reservations) <= MaxReservations
    /\ tool_name' = "make_reservation"
    /\ parameters' = p
    /\ tool_response' = make_reservation(restaurants, reservations, p).response
    /\ reservations' = make_reservation(restaurants, reservations, p).reservations
    /\ UNCHANGED <<recVars, restaurants, users, concVars, agentVars, chatVars>>

\* execute_tool("cancel_reservation", p)
CancelReservation(p) ==
    /\ tool_name' = "cancel_reservation"
    /\ parameters' = p
    /\ tool_response' = cancel_reservation(reservations, p).response
    /\ reservations' = cancel_reservation(reservations, p).reservations
    /\ UNCHANGED <<recVars, restaurants, users, concVars, agentVars, chatVars>>

\* POST /api/v1/reservations.  A missing restaurant or user raises
\* HTTPException(404), which the handler's own except clause turns into a
\* 400.  Otherwise the body goes straight to add_reservation; the handler
\* then looks the returned record up as if it were an id, gets None, and the
\* response model rejects it (500) after the record was written.
create_reservation(rests, us, rs, body) ==
    IF get_restaurant(rests, body.restaurant_id) = None
    THEN [response |-> [http |-> 400, detail |-> "404: Restaurant not found"],
          reservations |-> rs]
    ELSE IF get_user(us, body.user_id) = None
    THEN [response |-> [http |-> 400, detail |-> "404: User not found"],
          reservations |-> rs]
    ELSE [response |-> [http |-> 500, detail |-> "Internal Server Error"],
          reservations |-> add_reservation(rs, body).reservations]

ApiCreateReservation(body) ==
    /\ Len(create_reservation(restaurants, users, reservations, body).reservations)
           <= MaxReservations
    /\ tool_name' = "POST /api/v1/reservations"
    /\ parameters' = body
    /\ tool_response' = create_reservation(restaurants, users, reservations, body).response
    /\ reservations' = create_reservation(restaurants, users, reservations, body).reservations
    /\ UNCHANGED <<recVars, restaurants, users, concVars, agentVars, chatVars>>

\* PUT /api/v1/reservations/{reservation_id} with an arbitrary update dict:
\* one that sets the status, one that moves the reservation
StatusUpdates == { [status |-> "confirmed"] }
MoveUpdates == { [restaurant_id |-> 9] }

ApiUpdateReservation(reservation_id, updates) ==
    /\ tool_name' = "PUT /api/v1/reservations"
    /\ parameters' = Merge([reservation_id |-> reservation_id], updates)
    /\ reservations' = update_reservation(reservations, reservation_id, updates).reservations
    /\ tool_response' =
           IF get_reservation(reservations', reservation_id) = None
           THEN [http |-> 500, detail |-> "Internal Server Error"]
           ELSE [http |-> 200, body |-> get_reservation(reservations', reservation_id)]
    /\ UNCHANGED <<recVars, restaurants, users, concVars, agentVars, chatVars>>

\* DELETE /api/v1/reservations/{reservation_id}
ApiCancelReservation(reservation_id) ==
    /\ tool_name' = "DELETE /api/v1/reservations"
    /\ parameters' = [reservation_id |-> reservation_id]
    /\ reservations' =
           update_reservation(reservations, reservation_id,
                              [status |-> "cancelled"]).reservations
    /\ tool_response' = [http |-> 200, body |-> [message |-> "Reservation cancelled successfully"]]
    /\ UNCHANGED <<recVars, restaurants, users, concVars, agentVars, chatVars>>

Next ==
    \/ \E p \in CheckBags : CheckAvailability(p)
    \/ \E p \in MakeBags : MakeReservation(p)
    \/ \E p \in CancelBags : CancelReservation(p)
    \/ \E body \in ApiBodies : ApiCreateReservation(body)
    \/ \E reservation_id \in ReservationIds : \E updates \in StatusUpdates :
           ApiUpdateReservation(reservation_id, updates)
    \/ \E reservation_id \in ReservationIds : ApiCancelReservation(reservation_id)

Spec == Init /\ [][Next]_vars

(***************************************************************************)
(* Concurrent make_reservation calls on the shared reservations file.      *)
(* Nothing in tools.py or file_storage.py takes a lock, so a call is three *)
(* separate accesses to the file: the read inside _check_availability, the *)
(* read at the start of add_reservation and the write at its end.  Each    *)
(* caller makes one call.                                                  *)
(***************************************************************************)
\* stores the callers may find: empty, or one seat taken at restaurant 2
SeedReservations ==
    { <<>>,
      << [id |-> 1, restaurant_id |-> 2, user_id |-> 2, date |-> "2024-06-01",
          time |-> "19:00", party_size |-> 1, status |-> "confirmed"] >> }

InitConc ==
    /\ restaurants = InitRestaurants
    /\ users = InitUsers
    /\ RecommenderStart(InitRestaurants)
    /\ reservations \in SeedReservations
    /\ seed = reservations
    /\ tool_name = "none"
    /\ parameters = <<>>
    /\ tool_response = None
    /\ Idle
    /\ AgentStart
    /\ ChatIdle

\* tools.py:142-149: the required-fields test and the availability read
MakeReservationCheck(c, p) ==
    /\ pc[c] = "idle"
    /\ call' = [call EXCEPT ![c] = p]
    /\ IF make_reservation_refused(restaurants, reservations, p)
       THEN /\ pc' = [pc EXCEPT ![c] = "done"]
            /\ ret' = [ret EXCEPT ![c] =
                          make_reservation_failure(restaurants, reservations, p)]
       ELSE /\ pc' = [pc EXCEPT ![c] = "checked"]
            /\ ret' = ret
    /\ UNCHANGED <<recVars, storeVars, lastVars, snap, seed, agentVars, chatVars>>

\* file_storage.py:158: add_reservation reads the whole list
AddReservationRead(c) ==
    /\ pc[c] = "checked"
    /\ snap' = [snap EXCEPT ![c] = reservations]
    /\ pc' = [pc EXCEPT ![c] = "read"]
    /\ UNCHANGED <<recVars, storeVars, lastVars, call, ret, seed, agentVars, chatVars>>

\* file_storage.py:159-168 and tools.py:165-171: add_reservation writes the
\* list it read plus the new record, and the call returns
AddReservationWrite(c) ==
    /\ pc[c] = "read"
    /\ reservations' = add_reservation(snap[c], new_reservation(call[c])).reservations
    /\ ret' = [ret EXCEPT ![c] =
                  make_reservation_success(call[c],
                      add_reservation(snap[c], new_reservation(call[c])).reservation)]
    /\ pc' = [pc EXCEPT ![c] = "done"]
    /\ UNCHANGED <<recVars, restaurants, users, lastVars, call, snap, seed, agentVars, chatVars>>

NextConc ==
    \/ \E c \in Callers : \E p \in MakeBags : MakeReservationCheck(c, p)
    \/ \E c \in Callers : AddReservationRead(c)
    \/ \E c \in Callers : AddReservationWrite(c)

SpecConc == InitConc /\ [][NextConc]_vars

(***************************************************************************)
(* The agent orchestrator (app/agent/core.py).                             *)
(*                                                                         *)
(* A text is a sequence of tokens: a run of ordinary characters, the       *)
(* marker "TOOL_CALL:", a line break, a run of characters that is one      *)
(* complete JSON document, or a run that is no JSON document.  A JSON      *)
(* value is [type, value] for an object (value: the record of its          *)
(* members) and [type, truthy] for an array, string, number or boolean.    *)
(***************************************************************************)
Txt(s) == [t |-> "text", s |-> s]
Mark == [t |-> "mark"]
NL == [t |-> "nl"]
Json(v) == [t |-> "json", v |-> v]
Junk(s) == [t |-> "junk", s |-> s]

JObject(members) == [type |-> "object", value |-> members]
JArray(nonempty) == [type |-> "array", truthy |-> nonempty]

\* the text a directive for `tool` with the parameter bag `bag` is written as
Directive(tool, bag) ==
    Json(JObject([tool |-> tool, parameters |-> JObject(bag)]))

\* position of the first token of kind `sep` in `text`, 0 if there is none
FirstIndex(text, sep) ==
    LET hits == {i \in 1..Len(text) : text[i].t = sep}
    IN IF hits = {} THEN 0 ELSE CHOOSE i \in hits : \A j \in hits : i <= j

\* text.split(sep)[0]
Before(text, sep) ==
    IF FirstIndex(text, sep) = 0 THEN text
    ELSE SubSeq(text, 1, FirstIndex(text, sep) - 1)

\* what follows the first separator
After(text, sep) == SubSeq(text, FirstIndex(text, sep) + 1, Len(text))

\* json.loads: the value of a text that is exactly one JSON document;
\* anything else (nothing, broken JSON, text around the document) raises
json_loads(text) ==
    IF Len(text) = 1 /\ text[1].t = "json"
    THEN [ok |-> TRUE, value |-> text[1].v]
    ELSE [ok |-> FALSE]

\* an extraction that decodes the first JSON document of the payload and
\* ignores what follows it on the line
extract_tool_call_first_document(text) ==
    IF FirstIndex(text, "mark") = 0 THEN None
    ELSE LET tool_call_str == Before(Before(After(text, "mark"), "mark"), "nl")
         IN IF tool_call_str # <<>> /\ tool_call_str[1].t = "json"
            THEN tool_call_str[1].v
            ELSE None

\* everything after the last marker of a text
RECURSIVE AfterLast(_, _)
AfterLast(text, t) ==
    IF FirstIndex(After(text, t), t) = 0 THEN After(text, t)
    ELSE AfterLast(After(text, t), t)

\* an extraction that decodes the last directive of the output
extract_tool_call_last_directive(text) ==
    IF FirstIndex(text, "mark") = 0 THEN None
    ELSE LET tool_call_str == Before(AfterLast(text, "mark"), "nl")
         IN IF json_loads(tool_call_str).ok THEN json_loads(tool_call_str).value
            ELSE None

\* _extract_tool_call: llm_response.split("TOOL_CALL:")[1].split("\n")[0]
\* decoded; None without a marker or when decoding raises
extract_tool_call(text) ==
    IF FirstIndex(text, "mark") = 0 THEN None
    ELSE LET tool_call_str == Before(Before(After(text, "mark"), "mark"), "nl")
         IN IF json_loads(tool_call_str).ok THEN json_loads(tool_call_str).value
            ELSE None

\* Python's truth value of what _extract_tool_call returned
Truthy(v) ==
    IF v = None THEN FALSE
    ELSE IF v.type = "object" THEN DOMAIN v.value # {}
    ELSE v.truthy

\* the names ToolRegistry._initialize_tools registers
tools ==
    {"search_restaurants", "get_restaurant_details", "check_availability",
     "make_reservation", "get_recommendations", "cancel_reservation",
     "get_user_reservations", "update_user_preferences"}

\* a lookup that lists only the reservations whose restaurant resolves
get_user_reservations_resolved_only(rests, rs, p) ==
    IF ~TruthyInt(p, "user_id")
    THEN Error("user_id is required")
    ELSE LET user_reservations ==
                 SelectSeq(rs, LAMBDA r : /\ r.user_id = p.user_id
                                          /\ r.status # "cancelled"
                                          /\ get_restaurant(rests, r.restaurant_id) # None)
         IN [status |-> "success",
             data |-> [reservations |->
                          [i \in 1..Len(user_reservations) |->
                              Merge(user_reservations[i],
                                    [restaurant |->
                                        get_restaurant(rests,
                                                       user_reservations[i].restaurant_id)])]]]

\* _get_user_reservations: the user's reservations that are not cancelled,
\* each with the restaurant record under "restaurant" when it resolves
get_user_reservations(rests, rs, p) ==
    IF ~TruthyInt(p, "user_id")
    THEN Error("user_id is required")
    ELSE LET user_reservations ==
                 SelectSeq(rs, LAMBDA r : r.user_id = p.user_id /\ r.status # "cancelled")
             with_restaurant(r) ==
                 IF get_restaurant(rests, r.restaurant_id) # None
                 THEN Merge(r, [restaurant |-> get_restaurant(rests, r.restaurant_id)])
                 ELSE r
         IN [status |-> "success",
             data |-> [reservations |->
                          [i \in 1..Len(user_reservations) |->
                              with_restaurant(user_reservations[i])]]]

\* str.lower() on the words the model uses
lower(word) ==
    CASE word \in {"Italian", "ITALIAN", "italian"} -> "italian"
      [] word \in {"Japanese", "japanese"} -> "japanese"
      [] word \in {"Downtown", "downtown"} -> "downtown"
      [] word \in {"Midtown", "midtown"} -> "midtown"
      [] OTHER -> word

\* a search that returns every match
search_restaurants_unlimited(rests, p) ==
    LET matches(r) ==
            /\ Has(p, "cuisine") => lower(r.cuisine) = lower(p.cuisine)
            /\ Has(p, "location") => lower(r.location) = lower(p.location)
            /\ Has(p, "price_range") => r.price_range = p.price_range
            /\ Has(p, "features") => p.features \subseteq r.features
    IN [status |-> "success", data |-> [restaurants |-> SelectSeq(rests, matches)]]

\* _search_restaurants: every criterion the bag holds narrows the list; at
\* most 10 restaurants are returned
search_restaurants(rests, p) ==
    LET by_cuisine ==
            IF Has(p, "cuisine")
            THEN SelectSeq(rests, LAMBDA r : lower(r.cuisine) = lower(p.cuisine))
            ELSE rests
        by_location ==
            IF Has(p, "location")
            THEN SelectSeq(by_cuisine, LAMBDA r : lower(r.location) = lower(p.location))
            ELSE by_cuisine
        by_price ==
            IF Has(p, "price_range")
            THEN SelectSeq(by_location, LAMBDA r : r.price_range = p.price_range)
            ELSE by_location
        filtered ==
            IF Has(p, "features")
            THEN SelectSeq(by_price, LAMBDA r : p.features \subseteq r.features)
            ELSE by_price
    IN [status |-> "success", data |-> [restaurants |-> Take(filtered, 10)]]

\* whether a decoded JSON value is a number (the model's numbers are small)
IsInt(v) == ToString(v) \in {ToString(i) : i \in -9..99}

\* The exception a handler lets escape, if any.  _check_availability, and
\* _make_reservation through it, evaluate available_capacity >= party_size
\* (tools.py:134) once the slot is well formed and the restaurant exists;
\* the comparison raises TypeError when party_size is not a number.
handler_exception(rests, name, p) ==
    IF /\ name \in {"check_availability", "make_reservation"}
       /\ name = "make_reservation" => \A field \in required_fields : Has(p, field)
       /\ TruthyInt(p, "restaurant_id") /\ TruthyStr(p, "date") /\ TruthyStr(p, "time")
       /\ strptime(p.date, p.time)
       /\ get_restaurant(rests, p.restaurant_id) # None
       /\ Has(p, "party_size")
       /\ ~IsInt(p.party_size)
    THEN [raised |-> TRUE,
          str |-> "'>=' not supported between instances of 'int' and 'str'"]
    ELSE [raised |-> FALSE]

\* execute_tool: the envelope and the reservations the handler leaves.
\* The handlers that read or write reservations, and the restaurant
\* search, are modelled; LLMOutputs names no other registered tool, so the
\* last branch is never taken.
execute_tool(rests, rs, name, p) ==
    IF name \notin tools
    THEN [response |-> Error("Tool " \o name \o " not found"), reservations |-> rs]
    ELSE IF handler_exception(rests, name, p).raised
    THEN [response |-> Error(handler_exception(rests, name, p).str), reservations |-> rs]
    ELSE IF name = "check_availability"
    THEN [response |-> check_availability(rests, rs, p), reservations |-> rs]
    ELSE IF name = "make_reservation"
    THEN make_reservation(rests, rs, p)
    ELSE IF name = "cancel_reservation"
    THEN cancel_reservation(rs, p)
    ELSE IF name = "get_user_reservations"
    THEN [response |-> get_user_reservations(rests, rs, p), reservations |-> rs]
    ELSE IF name = "search_restaurants"
    THEN [response |-> search_restaurants(rests, p), reservations |-> rs]
    ELSE [response |-> None, reservations |-> rs]

Rendered(template, args) == << [t |-> "rendered", template |-> template, args |-> args] >>

\* _format_tool_response: the text, or the exception it raises
format_tool_response(env) ==
    IF env.status = "error"
    THEN [ok |-> TRUE, text |-> Rendered("error", <<env.message>>)]
    ELSE LET data == IF Has(env, "data") THEN env.data ELSE <<>> IN
    IF Has(data, "restaurants")
    THEN IF data.restaurants = <<>>
         THEN [ok |-> TRUE, text |-> Rendered("no restaurants found", <<>>)]
         ELSE [ok |-> TRUE,
               text |-> Rendered("restaurants",
                            << [i \in 1..Len(Take(data.restaurants, 3)) |->
                                   LET r == data.restaurants[i]
                                   IN <<r.name, r.cuisine, r.price_range, r.location>>],
                               IF Len(data.restaurants) > 3
                               THEN Len(data.restaurants) - 3 ELSE 0 >>)]
    ELSE IF Has(data, "reservation")
    THEN [ok |-> TRUE,
          text |-> Rendered("reservation made",
                            <<data.reservation.restaurant_id, data.reservation.date,
                              data.reservation.time, data.reservation.party_size,
                              data.reservation_id>>)]
    ELSE IF Has(data, "reservations")
    THEN IF data.reservations = <<>>
         THEN [ok |-> TRUE, text |-> Rendered("no active reservations", <<>>)]
         ELSE IF \E i \in 1..Len(data.reservations) : ~Has(data.reservations[i], "restaurant")
         THEN [ok |-> FALSE, exception |-> "KeyError: 'restaurant'"]
         ELSE [ok |-> TRUE,
               text |-> Rendered("current reservations",
                            [i \in 1..Len(data.reservations) |->
                                LET r == data.reservations[i]
                                IN <<r.restaurant.name, r.date, r.time, r.party_size,
                                     r.status>>])]
    ELSE IF Has(data, "available")
    THEN IF data.available
         THEN [ok |-> TRUE, text |-> Rendered("available", <<data.available_capacity>>)]
         ELSE [ok |-> TRUE,
               text |-> Rendered("fully booked",
                                 <<data.available_capacity, data.restaurant_capacity>>)]
    ELSE [ok |-> TRUE, text |-> Rendered("processed", <<>>)]

Returned(text) == [kind |-> "returned", response |-> text]
Raised(exception) == [kind |-> "raised", exception |-> exception]

\* an orchestrator that answers an error envelope with the model's own text
dispatch_echoing_model_text(rests, rs, text, user_info) ==
    LET tool_call == extract_tool_call(text)
        none == [tool_name |-> "none", parameters |-> <<>>, tool_response |-> None]
    IN
    IF ~Truthy(tool_call)
    THEN [outcome |-> Returned(text), last |-> none, reservations |-> rs]
    ELSE IF tool_call.type # "object"
    THEN [outcome |-> Raised("TypeError"), last |-> none, reservations |-> rs]
    ELSE IF ~Has(tool_call.value, "tool")
    THEN [outcome |-> Raised("KeyError: 'tool'"), last |-> none, reservations |-> rs]
    ELSE IF ~Has(tool_call.value, "parameters")
    THEN [outcome |-> Raised("KeyError: 'parameters'"), last |-> none, reservations |-> rs]
    ELSE IF tool_call.value.parameters.type # "object"
    THEN [outcome |-> Raised("TypeError"), last |-> none, reservations |-> rs]
    ELSE LET bag == Merge(tool_call.value.parameters.value, [user_info |-> user_info])
             done == execute_tool(rests, rs, tool_call.value.tool, bag)
             shown == format_tool_response(done.response)
         IN [outcome |-> IF done.response.status = "error" THEN Returned(text)
                         ELSE IF shown.ok THEN Returned(shown.text)
                         ELSE Raised(shown.exception),
             last |-> [tool_name |-> tool_call.value.tool, parameters |-> bag,
                       tool_response |-> done.response],
             reservations |-> done.reservations]

\* a dispatch in which a user_info of the directive wins over the caller's
dispatch_directive_wins(rests, rs, text, user_info) ==
    LET tool_call == extract_tool_call(text)
        none == [tool_name |-> "none", parameters |-> <<>>, tool_response |-> None]
    IN
    IF ~Truthy(tool_call)
    THEN [outcome |-> Returned(text), last |-> none, reservations |-> rs]
    ELSE IF tool_call.type # "object"
    THEN [outcome |-> Raised("TypeError"), last |-> none, reservations |-> rs]
    ELSE IF ~Has(tool_call.value, "tool")
    THEN [outcome |-> Raised("KeyError: 'tool'"), last |-> none, reservations |-> rs]
    ELSE IF ~Has(tool_call.value, "parameters")
    THEN [outcome |-> Raised("KeyError: 'parameters'"), last |-> none, reservations |-> rs]
    ELSE IF tool_call.value.parameters.type # "object"
    THEN [outcome |-> Raised("TypeError"), last |-> none, reservations |-> rs]
    ELSE LET bag == Merge([user_info |-> user_info], tool_call.value.parameters.value)
             done == execute_tool(rests, rs, tool_call.value.tool, bag)
             shown == format_tool_response(done.response)
         IN [outcome |-> IF shown.ok THEN Returned(shown.text) ELSE Raised(shown.exception),
             last |-> [tool_name |-> tool_call.value.tool, parameters |-> bag,
                       tool_response |-> done.response],
             reservations |-> done.reservations]

\* process_message from the tool-call test on (core.py:196-208): how the call
\* ends, the tool call it made (if any) and the reservations it leaves
dispatch(rests, rs, text, user_info) ==
    LET tool_call == extract_tool_call(text)
        none == [tool_name |-> "none", parameters |-> <<>>, tool_response |-> None]
    IN
    IF ~Truthy(tool_call)
    THEN [outcome |-> Returned(text), last |-> none, reservations |-> rs]
    ELSE IF tool_call.type # "object"
    THEN [outcome |-> Raised("TypeError"), last |-> none, reservations |-> rs]
    ELSE IF ~Has(tool_call.value, "tool")
    THEN [outcome |-> Raised("KeyError: 'tool'"), last |-> none, reservations |-> rs]
    ELSE IF ~Has(tool_call.value, "parameters")
    THEN [outcome |-> Raised("KeyError: 'parameters'"), last |-> none, reservations |-> rs]
    ELSE IF tool_call.value.parameters.type # "object"
    THEN [outcome |-> Raised("TypeError"), last |-> none, reservations |-> rs]
    ELSE LET bag == Merge(tool_call.value.parameters.value, [user_info |-> user_info])
             done == execute_tool(rests, rs, tool_call.value.tool, bag)
             shown == format_tool_response(done.response)
         IN [outcome |-> IF shown.ok THEN Returned(shown.text) ELSE Raised(shown.exception),
             last |-> [tool_name |-> tool_call.value.tool, parameters |-> bag,
                       tool_response |-> done.response],
             reservations |-> done.reservations]

\* what the model may answer
LLMOutputs ==
    { <<Txt("Happy to help.")>>,
      <<Txt("One moment."), Mark, Junk("{'tool': ")>>,
      <<Mark, Json(JObject(<<>>))>>,
      <<Mark, Json(JArray(TRUE))>>,
      <<Mark, Json(JObject([parameters |-> JObject(<<>>)]))>>,
      <<Mark, Json(JObject([tool |-> "check_availability"]))>>,
      <<Mark, Json(JObject([tool |-> "cancel_reservation", parameters |-> JArray(TRUE)]))>>,
      <<Mark, Directive("book_table", <<>>)>>,
      <<Txt("Let me check."), NL, Mark,
        Directive("check_availability",
                  [restaurant_id |-> 1, date |-> "2024-06-01", time |-> "19:00",
                   party_size |-> 2]),
        NL, Txt("Done.")>>,
      <<Mark,
        Directive("make_reservation",
                  [restaurant_id |-> 1, user_id |-> 1, date |-> "2024-06-01",
                   time |-> "19:00", party_size |-> 2])>>,
      <<Mark,
        Directive("check_availability",
                  [restaurant_id |-> 1, date |-> "2024-06-01", time |-> "19:00",
                   party_size |-> "two"])>>,
      <<Mark, Directive("cancel_reservation", [reservation_id |-> 1])>>,
      <<Mark, Directive("search_restaurants", [cuisine |-> "italian"])>>,
      <<Mark, Directive("search_restaurants", [cuisine |-> "Thai"])>>,
      <<Txt("Looking for Greek food."), NL, Mark,
        Directive("search_restaurants", [cuisine |-> "Greek", location |-> "Downtown"])>>,
      <<Txt("Booking."), NL, Mark, Directive("book_table", <<>>)>>,
      <<Mark, Directive("get_user_reservations", [user_id |-> 1])>>,
      <<Mark, Directive("get_user_reservations", <<>>), Txt(" as requested")>> }

Messages == { <<Txt("Book a table for two")>> }

UserInfos == { None, [id |-> 1, name |-> "Ann"] }

Turn(role, content) == [role |-> role, content |-> content]

\* Agent.process_message(text, user_info) with the model answering `answer`.
\* The user turn is appended first; when a later statement raises, the
\* assistant turn is never appended and the exception leaves the method.
ProcessMessage(text, user_info, answer) ==
    LET d == dispatch(restaurants, reservations, answer, user_info) IN
    /\ Len(conversation_history) < 2 * MaxMessages
    /\ Len(d.reservations) <= MaxReservations
    /\ message' = text
    /\ llm_response' = answer
    /\ outcome' = d.outcome
    /\ conversation_history' =
           IF d.outcome.kind = "returned"
           THEN conversation_history \o
                    <<Turn("user", text), Turn("assistant", d.outcome.response)>>
           ELSE Append(conversation_history, Turn("user", text))
    /\ tool_name' = d.last.tool_name
    /\ parameters' = d.last.parameters
    /\ tool_response' = d.last.tool_response
    /\ reservations' = d.reservations
    /\ UNCHANGED <<recVars, restaurants, users, concVars, chatVars>>

NextAgent ==
    \/ \E text \in Messages : \E user_info \in UserInfos : \E answer \in LLMOutputs :
           ProcessMessage(text, user_info, answer)
    \/ \E reservation_id \in {1, MaxReservations + 1} : \E updates \in MoveUpdates :
           ApiUpdateReservation(reservation_id, updates)

SpecAgent == Init /\ [][NextAgent]_vars

(***************************************************************************)
(* The chat endpoint (backend/main.py:101-108) running process_message     *)
(* statement by statement, with chat requests arriving at any time.        *)
(***************************************************************************)
\* the number of log turns _create_prompt shows
PromptTurns == 5

\* f"{msg['role']}: {msg['content']}"
Line(role, content) == <<role, ": ", content>>

\* a prompt that shows the whole log
create_prompt_whole_log(history, user_message) ==
    [system |-> [catalog |-> tools],
     conversation |->
         [i \in 1..Len(history) |-> Line(history[i].role, history[i].content)]
             \o <<Line("user", user_message)>>,
     suffix |-> "assistant: Let me help you with that. "]

\* _create_prompt: the system prompt with the tool catalog, the lines of
\* conversation_history[-5:], the line of the user message, and the suffix
create_prompt(history, user_message) ==
    LET shown == SubSeq(history,
                        IF Len(history) > PromptTurns
                        THEN Len(history) - PromptTurns + 1 ELSE 1,
                        Len(history))
    IN [system |-> [catalog |-> tools],
        conversation |->
            [i \in 1..Len(shown) |-> Line(shown[i].role, shown[i].content)]
                \o <<Line("user", user_message)>>,
        suffix |-> "assistant: Let me help you with that. "]

\* the texts _call_llm returns instead of a completion
ConfigApology ==
    <<Txt("I apologize, but I'm currently unable to process requests because the AI service is not properly configured. Please contact the system administrator to set up the required API key.")>>
AuthApology ==
    <<Txt("I apologize, but I'm currently unable to process requests because the AI service authentication failed. Please contact the system administrator to check the API key configuration.")>>
FormatApology ==
    <<Txt("I apologize, but I'm having trouble understanding the request format. Please try rephrasing your request.")>>
StatusApology(status_code) ==
    <<Txt("I apologize, but I encountered an error while processing your request (Status: "),
      Txt(ToString(status_code)), Txt("). Please try again later.")>>
ConnectApology ==
    <<Txt("I apologize, but I'm having trouble connecting to the AI service. Please try again later.")>>
UnexpectedApology(str) ==
    <<Txt("I apologize, but I encountered an unexpected error: "), Txt(str),
      Txt(". Please try again later.")>>

\* what the service did when it was not asked at all
NotCalled == [kind |-> "not_called"]

\* _call_llm: without a key the service is not called; a completion is
\* returned as it is; a RequestException is answered by its status code, or
\* as a connection problem when it carries no response; any other
\* exception is answered with its own text
call_llm(key, result) ==
    IF key = "" THEN ConfigApology
    ELSE IF result.kind = "completion" THEN result.text
    ELSE IF result.kind = "http_error"
    THEN IF result.status_code = 401 THEN AuthApology
         ELSE IF result.status_code = 400 THEN FormatApology
         ELSE StatusApology(result.status_code)
    ELSE IF result.kind = "unreachable" THEN ConnectApology
    ELSE UnexpectedApology(result.str)

\* completions of the service
ChatCompletions ==
    { <<Txt("Happy to help.")>>,
      <<Mark, Json(JObject([parameters |-> JObject(<<>>)]))>>,
      <<Txt("Let me check."), NL, Mark,
        Directive("check_availability",
                  [restaurant_id |-> 1, date |-> "2024-06-01", time |-> "19:00",
                   party_size |-> 2]),
        NL, Txt("Done.")>> }

\* what the service may do when it is called: complete, answer with an
\* error status, be out of reach, or answer 200 with a body that has no
\* "choices" (KeyError in core.py:95)
ServiceResults ==
    [kind : {"completion"}, text : ChatCompletions]
        \cup [kind : {"http_error"}, status_code : {401, 400, 500}]
        \cup { [kind |-> "unreachable"], [kind |-> "exception", str |-> "'choices'"] }

\* the message of the n-th chat request
ChatText(n) == <<Txt("message"), Txt(ToString(n))>>

\* a handler is between its first and its last statement
Running(n) == stage[n] \in {"appended", "prompted", "called"}

InitChat ==
    /\ restaurants = InitRestaurants
    /\ users = InitUsers
    /\ RecommenderStart(InitRestaurants)
    /\ reservations = <<>>
    /\ tool_name = "none"
    /\ parameters = <<>>
    /\ tool_response = None
    /\ Idle
    /\ seed = <<>>
    /\ AgentStart
    /\ api_key \in {"", "gsk_key"}
    /\ stage = [n \in ChatIds |-> "absent"]
    /\ prompt = None
    /\ llm_result = None

\* a client posts the n-th chat request
Arrive(n) ==
    /\ stage[n] = "absent"
    /\ IF n = 1 THEN TRUE ELSE stage[n - 1] # "absent"
    /\ stage' = [stage EXCEPT ![n] = "waiting"]
    /\ UNCHANGED <<recVars, storeVars, lastVars, concVars, agentVars, api_key, prompt, llm_result>>

\* a handler that begins without appending the user turn to the log
ChatBeginWithoutAppend(n) ==
    /\ stage[n] = "waiting"
    /\ \A m \in ChatIds : m < n => stage[m] # "waiting"
    /\ \A m \in ChatIds : ~Running(m)
    /\ stage' = [stage EXCEPT ![n] = "appended"]
    /\ message' = ChatText(n)
    /\ UNCHANGED <<recVars, storeVars, lastVars, concVars, llm_response, outcome,
                   api_key, prompt, llm_result, conversation_history>>

\* The event loop starts the handler of the request that has waited
\* longest.  chat is an async def that calls process_message without
\* awaiting anything, so the loop starts no handler while another one is
\* running.  The handler's first statement appends the user turn
\* (core.py:183-187).
ChatBegin(n) ==
    /\ stage[n] = "waiting"
    /\ \A m \in ChatIds : m < n => stage[m] # "waiting"
    /\ \A m \in ChatIds : ~Running(m)
    /\ stage' = [stage EXCEPT ![n] = "appended"]
    /\ message' = ChatText(n)
    /\ conversation_history' = Append(conversation_history, Turn("user", ChatText(n)))
    /\ UNCHANGED <<recVars, storeVars, lastVars, concVars, llm_response, outcome,
                   api_key, prompt, llm_result>>

\* prompt = self._create_prompt(message) (core.py:190)
CreatePrompt(n) ==
    /\ stage[n] = "appended"
    /\ stage' = [stage EXCEPT ![n] = "prompted"]
    /\ prompt' = create_prompt(conversation_history, message)
    /\ UNCHANGED <<recVars, storeVars, lastVars, concVars, agentVars, api_key, llm_result>>

\* llm_response = self._call_llm(prompt) (core.py:193)
CallLLM(n, result) ==
    /\ stage[n] = "prompted"
    /\ stage' = [stage EXCEPT ![n] = "called"]
    /\ llm_result' = IF api_key = "" THEN NotCalled ELSE result
    /\ llm_response' = call_llm(api_key, result)
    /\ UNCHANGED <<recVars, storeVars, lastVars, concVars, conversation_history, message,
                   outcome, api_key, prompt>>

\* The rest of process_message (core.py:196-217): the tool call, the
\* assistant turn and the return; chat answers an exception with HTTP 500.
ChatReply(n, user_info) ==
    LET d == dispatch(restaurants, reservations, llm_response, user_info) IN
    /\ stage[n] = "called"
    /\ Len(d.reservations) <= MaxReservations
    /\ stage' = [stage EXCEPT ![n] =
                     IF d.outcome.kind = "returned" THEN "replied" ELSE "failed"]
    /\ outcome' = d.outcome
    /\ conversation_history' =
           IF d.outcome.kind = "returned"
           THEN Append(conversation_history, Turn("assistant", d.outcome.response))
           ELSE conversation_history
    /\ tool_name' = d.last.tool_name
    /\ parameters' = d.last.parameters
    /\ tool_response' = d.last.tool_response
    /\ reservations' = d.reservations
    /\ UNCHANGED <<recVars, restaurants, users, concVars, message, llm_response,
                   api_key, prompt, llm_result>>

NextChat ==
    \/ \E n \in ChatIds : Arrive(n)
    \/ \E n \in ChatIds : ChatBegin(n)
    \/ \E n \in ChatIds : CreatePrompt(n)
    \/ \E n \in ChatIds : \E result \in ServiceResults : CallLLM(n, result)
    \/ \E n \in ChatIds : \E user_info \in UserInfos : ChatReply(n, user_info)

SpecChat == InitChat /\ [][NextChat]_vars

(***************************************************************************)
(* Users: the preference update of the action registry (tools.py:233-250), *)
(* the create-user request (backend/main.py:134-160) and the store's       *)
(* add_user, one whole call at a time.                                     *)
(***************************************************************************)
MaxUsers == 4

\* self.storage.update_user(user_id, user) (tools.py:247): FileStorage
\* defines get_users, get_user, get_user_by_email and add_user and no
\* update_user, so looking the attribute up raises AttributeError and
\* nothing is written
update_user(us, user_id, user) ==
    [raised |-> TRUE, users |-> us,
     str |-> "'FileStorage' object has no attribute 'update_user'"]

\* _update_user_preferences: the envelope and the users it leaves
update_user_preferences(us, p) ==
    IF ~TruthyInt(p, "user_id")
    THEN [response |-> Error("user_id is required"), users |-> us]
    ELSE IF get_user(us, p.user_id) = None
    THEN [response |-> Error("User not found"), users |-> us]
    ELSE LET user == Merge(get_user(us, p.user_id),
                           [preferences |-> IF Has(p, "preferences")
                                            THEN p.preferences ELSE <<>>])
             saved == update_user(us, p.user_id, user)
         IN IF saved.raised
            THEN [response |-> Error(saved.str), users |-> us]
            ELSE [response |-> [status |-> "success",
                                message |-> "Preferences updated successfully"],
                  users |-> saved.users]

\* create_user: the response and the users the handler leaves.  A body
\* without preferences carries preferences = None (main.py:64).
create_user(us, body) ==
    IF get_user_by_email(us, body.email) # None
    THEN [response |-> [http |-> 400, detail |-> "User with this email already exists"],
          users |-> us]
    ELSE LET added == add_user(us, body)
         IN IF added.raised
            THEN [response |-> [http |-> 500,
                                detail |-> "Error storing user data: " \o added.str],
                  users |-> us]
            ELSE [response |-> [http |-> 200, body |-> added.user],
                  users |-> added.users]

Emails == {"ann@example.com", "cy@example.com"}

\* the preference profiles a request carries
Profiles ==
    { <<>>, [location |-> "Midtown"], [cuisine |-> List(<<"Italian">>)],
      [cuisine |-> Str("Italian")] }

PreferenceBags ==
    [user_id : {1, 2, 8}, preferences : Profiles \ {<<>>}]
        \cup { [preferences |-> [location |-> "Midtown"]] }

\* the bodies the user model of the API admits
UserBodies ==
    [name : {"Cy"}, email : Emails, phone : {"555-0003"},
     preferences : {None} \cup Profiles]

\* the dicts a direct caller hands to add_user
UserData ==
    UserBodies
        \cup [name : {"Cy"}, email : Emails, phone : {"555-0003"}]
        \cup [name : {"Cy"}, email : Emails]

\* execute_tool("update_user_preferences", p)
UpdateUserPreferences(p) ==
    /\ tool_name' = "update_user_preferences"
    /\ parameters' = p
    /\ tool_response' = update_user_preferences(users, p).response
    /\ users' = update_user_preferences(users, p).users
    /\ UNCHANGED <<recVars, restaurants, reservations, concVars, agentVars, chatVars>>

\* POST /api/v1/users
ApiCreateUser(body) ==
    /\ Len(create_user(users, body).users) <= MaxUsers
    /\ tool_name' = "POST /api/v1/users"
    /\ parameters' = body
    /\ tool_response' = create_user(users, body).response
    /\ users' = create_user(users, body).users
    /\ UNCHANGED <<recVars, restaurants, reservations, concVars, agentVars, chatVars>>

\* FileStorage.add_user(user_data)
AddUser(user_data) ==
    /\ Len(add_user(users, user_data).users) <= MaxUsers
    /\ tool_name' = "add_user"
    /\ parameters' = user_data
    /\ tool_response' = Without(add_user(users, user_data), "users")
    /\ users' = add_user(users, user_data).users
    /\ UNCHANGED <<recVars, restaurants, reservations, concVars, agentVars, chatVars>>

NextUsers ==
    \/ \E p \in PreferenceBags : UpdateUserPreferences(p)
    \/ \E body \in UserBodies : ApiCreateUser(body)
    \/ \E user_data \in UserData : AddUser(user_data)

SpecUsers == Init /\ [][NextUsers]_vars

(***************************************************************************)
(* The pure reads of the action registry, applied to a store drawn from a  *)
(* bounded set: the reservation lookup over the ledgers that bookings,     *)
(* cancellations and PUT updates can leave.                                *)
(***************************************************************************)
\* a stored reservation without its id: whose it is, where, and its status;
\* restaurant 9 is not in the store
LedgerEntries ==
    [restaurant_id : {1, 9}, user_id : UserIds, date : {"2024-06-01"},
     time : {"19:00"}, party_size : {2}, status : {"confirmed", "cancelled"}]

Ledgers ==
    UNION { { [i \in 1..n |-> Merge([id |-> i], f[i])] : f \in [1..n -> LedgerEntries] } :
            n \in 0..MaxReservations }

InitLookup ==
    /\ restaurants = InitRestaurants
    /\ users = InitUsers
    /\ RecommenderStart(InitRestaurants)
    /\ reservations \in Ledgers
    /\ tool_name = "none"
    /\ parameters = <<>>
    /\ tool_response = None
    /\ Idle
    /\ seed = <<>>
    /\ AgentStart
    /\ ChatIdle

LookupBags == [user_id : {0, 1, 8}] \cup { <<>> }

\* execute_tool("get_user_reservations", p)
GetUserReservations(p) ==
    /\ tool_name' = "get_user_reservations"
    /\ parameters' = p
    /\ tool_response' =
           execute_tool(restaurants, reservations, "get_user_reservations", p).response
    /\ reservations' =
           execute_tool(restaurants, reservations, "get_user_reservations", p).reservations
    /\ UNCHANGED <<recVars, restaurants, users, concVars, agentVars, chatVars>>

NextLookup == \E p \in LookupBags : GetUserReservations(p)

SpecLookup == InitLookup /\ [][NextLookup]_vars

(***************************************************************************)
(* The restaurant search applied to a store drawn from a bounded set of    *)
(* catalogues, the longest of which hold more than ten matches.            *)
(***************************************************************************)
MaxCatalogue == 13

\* branches of two houses; the spelling of a cuisine varies between the
\* branches of the first
Branch(i, period) ==
    IF i % period = 0
    THEN [id |-> i, name |-> "Sakura Japanese", capacity |-> 4,
          cuisine |-> "Japanese", location |-> "Midtown", price_range |-> "$$$$",
          rating |-> 48, features |-> {"sushi_bar"}, menu |-> {"Ramen"}]
    ELSE IF i % 2 = 1
    THEN [id |-> i, name |-> "La Bella Italia", capacity |-> 3,
          cuisine |-> "Italian", location |-> "Downtown", price_range |-> "$$$",
          rating |-> 45, features |-> {"parking", "bar"}, menu |-> {"Bruschetta"}]
    ELSE [id |-> i, name |-> "La Bella Italia", capacity |-> 3,
          cuisine |-> "ITALIAN", location |-> "Downtown", price_range |-> "$$",
          rating |-> 45, features |-> {"parking"}, menu |-> {"Bruschetta"}]

\* every `period`-th restaurant belongs to the second house
Catalogue(n, period) == [i \in 1..n |-> Branch(i, period)]

Catalogues == { Catalogue(n, period) : n \in 0..MaxCatalogue, period \in {1, 2, 6, 99} }

InitSearch ==
    /\ restaurants \in Catalogues
    /\ users = InitUsers
    /\ RecommenderStart(restaurants)
    /\ reservations = <<>>
    /\ tool_name = "none"
    /\ parameters = <<>>
    /\ tool_response = None
    /\ Idle
    /\ seed = <<>>
    /\ AgentStart
    /\ ChatIdle

\* the criteria a search may carry, each of them optional
SearchBags ==
    LET cuisines == {"italian", "Japanese", "Thai"}
        locations == {"downtown"}
        price_ranges == {"$$$"}
        feature_sets == {{"parking"}, {"parking", "bar"}}
    IN { <<>> }
         \cup [cuisine : cuisines]
         \cup [location : locations]
         \cup [price_range : price_ranges]
         \cup [features : feature_sets]
         \cup [cuisine : cuisines, location : locations]
         \cup [cuisine : cuisines, features : feature_sets]
         \cup [cuisine : cuisines, location : locations, price_range : price_ranges,
               features : feature_sets]

\* execute_tool("search_restaurants", p)
SearchRestaurants(p) ==
    /\ tool_name' = "search_restaurants"
    /\ parameters' = p
    /\ tool_response' =
           execute_tool(restaurants, reservations, "search_restaurants", p).response
    /\ UNCHANGED <<recVars, storeVars, concVars, agentVars, chatVars>>

NextSearch == \E p \in SearchBags : SearchRestaurants(p)

SpecSearch == InitSearch /\ [][NextSearch]_vars

(***************************************************************************)
(* The recommender behind the action registry: restaurants are added       *)
(* through the API while recommendations and similar restaurants are       *)
(* requested, one whole call at a time.  The recommender is built once,    *)
(* when the registry is (tools.py:15), over the store as it is then.       *)
(***************************************************************************)
MaxRestaurants == 3

\* a restaurant whose text is a single term, and the first seeded one
Noodle ==
    [name |-> "Noodle", capacity |-> 2, cuisine |-> "Noodle", location |-> "Noodle",
     price_range |-> "$", rating |-> 45, features |-> {}, menu |-> {}]

RestaurantBodies == { Noodle, Without(InitRestaurants[1], "id") }

\* _get_recommendations, called through execute_tool: the envelope and the
\* index the recommender is left with.  An argument the bag does not hold
\* is passed as None, which `args` shows by leaving it out.
get_recommendations_handler(rests, us, index, p) ==
    LET preferences == IF Has(p, "preferences") THEN p.preferences ELSE <<>>
        passed == ({"user_id"} \cap DOMAIN p)
                      \cup (IF Has(preferences, "cuisine") THEN {"cuisine_preference"} ELSE {})
                      \cup ({"location", "price_range", "occasion"} \cap DOMAIN preferences)
        args == [k \in passed |->
                    IF k = "user_id" THEN p.user_id
                    ELSE IF k = "cuisine_preference" THEN preferences.cuisine
                    ELSE preferences[k]]
        done == get_recommendations(rests, us, index, args, DefaultLimit)
    IN IF done.raised
       THEN [response |-> Error(done.str), index |-> done.index]
       ELSE [response |-> [status |-> "success",
                           data |-> [recommendations |-> done.value]],
             index |-> done.index]

RecommendBags ==
    { <<>>,
      [user_id |-> 1],
      [user_id |-> 2],
      [user_id |-> 8],
      [user_id |-> 1, preferences |-> [location |-> "Midtown"]],
      [preferences |-> [cuisine |-> "noodle"]],
      [user_id |-> 1, preferences |-> [cuisine |-> "", occasion |-> "date"]] }

InitRecommend ==
    /\ restaurants \in { <<>>, <<Merge([id |-> 1], Noodle)>>, InitRestaurants }
    /\ users = InitUsers
    /\ RecommenderStart(restaurants)
    /\ reservations = <<>>
    /\ tool_name = "none"
    /\ parameters = <<>>
    /\ tool_response = None
    /\ Idle
    /\ seed = <<>>
    /\ AgentStart
    /\ ChatIdle

\* POST /api/v1/restaurants: add_restaurant stores the record; the handler
\* then looks the returned record up as if it were an id, gets None, and
\* the response model rejects it (500) after the record was written
ApiCreateRestaurant(body) ==
    /\ Len(restaurants) < MaxRestaurants
    /\ tool_name' = "POST /api/v1/restaurants"
    /\ parameters' = body
    /\ tool_response' = [http |-> 500, detail |-> "Internal Server Error"]
    /\ restaurants' = add_restaurant(restaurants, body).restaurants
    /\ recommended' = None
    /\ UNCHANGED <<restaurant_ids, restaurant_vectors, users, reservations, concVars,
                   agentVars, chatVars>>

\* execute_tool("get_recommendations", p).  `kept` tells whether this call
\* is the one remembered in `recommended` from now on; a later call with the
\* same bag marks the remembered one as repeated.
GetRecommendations(p, kept) ==
    LET index == [restaurant_ids |-> restaurant_ids,
                  restaurant_vectors |-> restaurant_vectors]
        done == get_recommendations_handler(restaurants, users, index, p)
    IN /\ tool_name' = "get_recommendations"
       /\ parameters' = p
       /\ tool_response' = done.response
       /\ restaurant_ids' = done.index.restaurant_ids
       /\ restaurant_vectors' = done.index.restaurant_vectors
       /\ recommended' =
              IF kept
              THEN [parameters |-> p, response |-> done.response, repeated |-> FALSE]
              ELSE IF recommended = None THEN None
              ELSE IF recommended.parameters = p
              THEN [recommended EXCEPT !.repeated = TRUE]
              ELSE recommended
       /\ UNCHANGED <<storeVars, concVars, agentVars, chatVars>>

\* RestaurantRecommender.get_similar_restaurants(restaurant_id)
GetSimilarRestaurants(restaurant_id) ==
    LET index == [restaurant_ids |-> restaurant_ids,
                  restaurant_vectors |-> restaurant_vectors]
        done == get_similar_restaurants(restaurants, index, restaurant_id, DefaultLimit)
    IN /\ tool_name' = "get_similar_restaurants"
       /\ parameters' = [restaurant_id |-> restaurant_id]
       /\ tool_response' = Without(done, "index")
       /\ restaurant_ids' = done.index.restaurant_ids
       /\ restaurant_vectors' = done.index.restaurant_vectors
       /\ UNCHANGED <<recommended, storeVars, concVars, agentVars, chatVars>>

NextRecommend ==
    \/ \E body \in RestaurantBodies : ApiCreateRestaurant(body)
    \/ \E p \in RecommendBags : \E kept \in BOOLEAN : GetRecommendations(p, kept)
    \/ \E restaurant_id \in {1, 2, 9} : GetSimilarRestaurants(restaurant_id)

SpecRecommend == InitRecommend /\ [][NextRecommend]_vars

(***************************************************************************)
(* process_message on model outputs that hold several directives or a      *)
(* directive with a user_info of its own.                                  *)
(***************************************************************************)
\* what the model may answer
DirectiveOutputs ==
    { <<Txt("Happy to help.")>>,
      <<Mark,
        Directive("make_reservation",
                  [restaurant_id |-> 1, user_id |-> 1, date |-> "2024-06-01",
                   time |-> "19:00", party_size |-> 2])>>,
      <<Mark, Directive("get_user_reservations", [user_id |-> 1])>>,
      <<Mark, Directive("cancel_reservation", [reservation_id |-> 1])>>,
      <<Mark, Directive("search_restaurants", [cuisine |-> "italian"]), NL,
        Txt("I will book it."), NL, Mark,
        Directive("make_reservation",
                  [restaurant_id |-> 1, user_id |-> 1, date |-> "2024-06-01",
                   time |-> "19:00", party_size |-> 3])>>,
      <<Mark,
        Directive("get_user_reservations",
                  [user_id |-> 1, user_info |-> [id |-> 8, name |-> "Eve"]])>>,
      <<Txt("Cancelling, then booking again."), NL, Mark,
        Directive("cancel_reservation", [reservation_id |-> 1]), NL, Mark,
        Directive("make_reservation",
                  [restaurant_id |-> 2, user_id |-> 1, date |-> "2024-06-01",
                   time |-> "19:00", party_size |-> 1])>>,
      <<Mark,
        Directive("check_availability",
                  [restaurant_id |-> 1, date |-> "2024-06-01", time |-> "19:00",
                   party_size |-> 2]),
        Mark, Directive("cancel_reservation", [reservation_id |-> 1])>> }

NextDirective ==
    \E text \in Messages : \E user_info \in UserInfos : \E answer \in DirectiveOutputs :
        ProcessMessage(text, user_info, answer)

SpecDirective == Init /\ [][NextDirective]_vars

(***************************************************************************)
(* The booking ledger written by nothing but the make_reservation and      *)
(* cancel_reservation tools, called one at a time with party sizes and     *)
(* ids of every kind.                                                      *)
(***************************************************************************)
\* the party sizes a caller may send: JSON integers of any sign
AnyPartySizes == {-1, 0, 1, 2, 3}

\* complete make_reservation bags for one evening
LedgerBags ==
    [restaurant_id : {1, 9}, user_id : UserIds, date : {"2024-06-01"},
     time : {"19:00"}, party_size : AnyPartySizes]

NextLedger ==
    \/ \E p \in LedgerBags : MakeReservation(p)
    \/ \E p \in CancelBags : CancelReservation(p)

SpecLedger == Init /\ [][NextLedger]_vars

(***************************************************************************)
(* The capacity figures the specification defines, used to state claims:   *)
(* seats of a slot not taken by a reservation that is not cancelled.       *)
(***************************************************************************)
NonCancelledAt(rs, restaurant_id, date, time) ==
    SelectSeq(rs, LAMBDA r : /\ r.restaurant_id = restaurant_id
                             /\ r.date = date
                             /\ r.time = time
                             /\ r.status # "cancelled")

ConfirmedAt(rs, restaurant_id, date, time) ==
    SelectSeq(rs, LAMBDA r : /\ r.restaurant_id = restaurant_id
                             /\ r.date = date
                             /\ r.time = time
                             /\ r.status = "confirmed")

RemainingCapacity(rests, rs, restaurant_id, date, time) ==
    get_restaurant(rests, restaurant_id).capacity
        - SumPartySize(NonCancelledAt(rs, restaurant_id, date, time))

\* p names an existing restaurant and a well-formed date and time
WellFormedSlot(rests, p) ==
    /\ TruthyInt(p, "restaurant_id") /\ TruthyStr(p, "date") /\ TruthyStr(p, "time")
    /\ strptime(p.date, p.time)
    /\ get_restaurant(rests, p.restaurant_id) # None

(***************************************************************************)
(* Claims about requests served one at a time (Spec).                      *)
(***************************************************************************)

\* C3: make_reservation with a party size larger than the slot's remaining
\* capacity leaves the reservations unchanged and returns available = false
\* with the slot's remaining capacity and the restaurant's capacity.
C3_RefusalReportsRemaining ==
    [][ ( /\ tool_name' = "make_reservation"
          /\ required_fields \subseteq DOMAIN parameters'
          /\ WellFormedSlot(restaurants, parameters')
          /\ parameters'.party_size >
                 RemainingCapacity(restaurants, reservations, parameters'.restaurant_id,
                                   parameters'.date, parameters'.time) )
        => ( /\ reservations' = reservations
             /\ tool_response'.status = "success"
             /\ tool_response'.data.available = FALSE
             /\ tool_response'.data.available_capacity =
                    RemainingCapacity(restaurants, reservations, parameters'.restaurant_id,
                                      parameters'.date, parameters'.time)
             /\ tool_response'.data.restaurant_capacity =
                    get_restaurant(restaurants, parameters'.restaurant_id).capacity ) ]_vars

\* C4: cancelling a confirmed reservation of party size p keeps the record
\* in the store with status cancelled, and check_availability for its slot
\* then reports a remaining capacity p higher than before.
C4_CancelFreesCapacity ==
    [][ ( /\ tool_name' = "cancel_reservation"
          /\ TruthyInt(parameters', "reservation_id")
          /\ get_reservation(reservations, parameters'.reservation_id) # None
          /\ get_reservation(reservations, parameters'.reservation_id).status = "confirmed" )
        => LET r == get_reservation(reservations, parameters'.reservation_id)
               slot == [restaurant_id |-> r.restaurant_id, date |-> r.date,
                        time |-> r.time, party_size |-> 1]
           IN /\ Len(reservations') = Len(reservations)
              /\ get_reservation(reservations', r.id) # None
              /\ get_reservation(reservations', r.id).status = "cancelled"
              /\ check_availability(restaurants, reservations', slot).data.available_capacity
                   = check_availability(restaurants, reservations, slot).data.available_capacity
                     + r.party_size ]_vars

\* C5: check_availability on an existing restaurant with a well-formed date
\* and time returns remaining = capacity minus the party sizes of the
\* reservations of exactly that slot that are not cancelled, and
\* available = (remaining >= party_size).
C5_RemainingExcludesCancelled ==
    ( /\ tool_name = "check_availability"
      /\ Has(parameters, "party_size")
      /\ WellFormedSlot(restaurants, parameters) )
    => LET remaining == RemainingCapacity(restaurants, reservations,
                                          parameters.restaurant_id, parameters.date,
                                          parameters.time)
       IN /\ tool_response.status = "success"
          /\ tool_response.data.available_capacity = remaining
          /\ tool_response.data.available = (remaining >= parameters.party_size)

\* C6: a check_availability call changes no restaurant, user or reservation,
\* whatever it returns, and a second call with the same arguments right
\* after it returns the same result.
C6_CheckAvailabilityPureRead ==
    [][ tool_name' = "check_availability"
        => /\ restaurants' = restaurants
           /\ users' = users
           /\ reservations' = reservations
           /\ ( (tool_name = "check_availability" /\ parameters' = parameters)
                => tool_response' = tool_response ) ]_vars

\* a check_availability call has just reported a slot of a store that holds
\* reservations as full
C6_Witness ==
    /\ tool_name = "check_availability"
    /\ reservations # <<>>
    /\ tool_response.status = "success"
    /\ ~tool_response.data.available

\* C7: a confirmed reservation enters the store only when check_availability,
\* evaluated on the store at that moment, returns available = true for its
\* restaurant, date, time and party size.
C7_OnlyLedgerAuthorizes ==
    [][ \A i \in 1..Len(reservations') :
          (i > Len(reservations) /\ reservations'[i].status = "confirmed")
          => LET r == reservations'[i]
                 asked == check_availability(restaurants, reservations,
                              [restaurant_id |-> r.restaurant_id, date |-> r.date,
                               time |-> r.time, party_size |-> r.party_size])
             IN asked.status = "success" /\ asked.data.available ]_vars

\* C8: cancel_reservation returns a success envelope only when a reservation
\* with the given id is in the store; for an id that is not, it returns an
\* error envelope.
C8_CancelReportsNotFound ==
    ( /\ tool_name = "cancel_reservation"
      /\ TruthyInt(parameters, "reservation_id") )
    => ( tool_response.status = "success"
         <=> get_reservation(reservations, parameters.reservation_id) # None )

(***************************************************************************)
(* Claims about concurrent make_reservation calls (SpecConc).              *)
(***************************************************************************)

\* C1: for every restaurant and slot, the party sizes of the confirmed
\* reservations of the slot never add up to more than the restaurant's
\* capacity, whatever the interleaving of the concurrent calls.
C1_SlotsWithinCapacity ==
    \A s \in SlotBags :
        SumPartySize(ConfirmedAt(reservations, s.restaurant_id, s.date, s.time))
            <= get_restaurant(restaurants, s.restaurant_id).capacity

\* the caller's call created a reservation
Created(c) ==
    /\ pc[c] = "done"
    /\ ret[c].status = "success"
    /\ Has(ret[c].data, "reservation")

\* the caller's call came back with available = false
ToldFull(c) ==
    /\ pc[c] = "done"
    /\ ret[c].status = "success"
    /\ Has(ret[c].data, "available")
    /\ ret[c].data.available = FALSE

\* C2: two concurrent calls with party size 3 each for a slot that had 3
\* seats left: once both have returned, exactly one created a reservation
\* and the other was told available = false and created nothing.
C2_ExactlyOneOfTwoSucceeds ==
    ( /\ \A c \in Callers : pc[c] = "done"
      /\ \A c \in Callers : required_fields \subseteq DOMAIN call[c]
      /\ \A c \in Callers : WellFormedSlot(restaurants, call[c])
      /\ \A c \in Callers : call[c].party_size = 3
      /\ call[1].restaurant_id = call[2].restaurant_id
      /\ call[1].date = call[2].date
      /\ call[1].time = call[2].time
      /\ RemainingCapacity(restaurants, seed, call[1].restaurant_id,
                           call[1].date, call[1].time) = 3 )
    => /\ \E c \in Callers : Created(c) /\ \A d \in Callers \ {c} : ToldFull(d)
       /\ Len(reservations) = Len(seed) + 1

(***************************************************************************)
(* Claims about the agent orchestrator (SpecAgent).                        *)
(***************************************************************************)

\* C9: every process_message call appends to the log a user turn holding
\* the input text and then an assistant turn holding exactly the reply it
\* returns, earlier turns stay as they were, and the log alternates between
\* user and assistant turns.
C9_LogAlternates ==
    [][ conversation_history' # conversation_history
        => /\ outcome'.kind = "returned"
           /\ conversation_history' =
                  conversation_history \o
                      <<Turn("user", message'), Turn("assistant", outcome'.response)>>
           /\ \A i \in 1..Len(conversation_history') :
                  conversation_history'[i].role =
                      IF i % 2 = 1 THEN "user" ELSE "assistant" ]_vars

\* C10: process_message returns a text for every model output, directive
\* payload and result envelope; it never raises.
C10_AlwaysReturnsText ==
    outcome.kind # "raised"

\* the text between the first "TOOL_CALL:" of a model output and the end of
\* its line
Payload(text) == Before(Before(After(text, "mark"), "mark"), "nl")

HasDirective(text) == \E i \in 1..Len(text) : text[i].t = "mark"

\* the payload is one complete JSON document and nothing else
PayloadParses(text) == Len(Payload(text)) = 1 /\ Payload(text)[1].t = "json"

\* the payload is an object naming a tool and an object of parameters
WellFormedDirective(text) ==
    /\ HasDirective(text) /\ PayloadParses(text)
    /\ Payload(text)[1].v.type = "object"
    /\ Has(Payload(text)[1].v.value, "tool")
    /\ Has(Payload(text)[1].v.value, "parameters")
    /\ Payload(text)[1].v.value.parameters.type = "object"

DirectedTool(text) == Payload(text)[1].v.value.tool

\* C11: when the model output holds a directive whose payload does not
\* parse, no action is dispatched, the store is left as it was, and the
\* reply, returned and appended to the log, is the model output itself.
C11_UnparsablePayloadFallsThrough ==
    [][ ( /\ conversation_history' # conversation_history
          /\ HasDirective(llm_response')
          /\ ~PayloadParses(llm_response') )
        => /\ tool_name' = "none"
           /\ restaurants' = restaurants /\ users' = users
           /\ reservations' = reservations
           /\ outcome' = Returned(llm_response')
           /\ conversation_history' =
                  conversation_history \o
                      <<Turn("user", message'), Turn("assistant", llm_response')>> ]_vars

\* a call answered with an unparsable directive, on a store that holds a
\* reservation, has returned the model output
C11_Witness ==
    /\ HasDirective(llm_response) /\ ~PayloadParses(llm_response)
    /\ outcome = Returned(llm_response)
    /\ reservations # <<>>
    /\ conversation_history # <<>>
    /\ conversation_history[Len(conversation_history)] = Turn("assistant", llm_response)

\* C12: a directive naming an action that is not registered changes
\* nothing, and the reply is the model output itself, not an error message.
C12_UnknownActionFallsThrough ==
    [][ ( /\ conversation_history' # conversation_history
          /\ WellFormedDirective(llm_response')
          /\ DirectedTool(llm_response') \notin tools )
        => /\ restaurants' = restaurants /\ users' = users
           /\ reservations' = reservations
           /\ outcome' = Returned(llm_response') ]_vars

\* requests of the network API, as recorded in tool_name
ApiNames == {"POST /api/v1/reservations", "PUT /api/v1/reservations",
             "DELETE /api/v1/reservations"}

\* the last operation went through execute_tool
Dispatched == tool_name \notin ({"none"} \cup ApiNames)

\* a message names an action when the action's name is part of it
Affixes == {"", "Tool ", " not found", "Error in ", " failed", ": "}
Names(msg, name) == \E pre \in Affixes, post \in Affixes : msg = pre \o name \o post

\* C13: execute_tool answers every action name and parameter bag with a
\* result envelope; for an unregistered name, and for a handler that raised,
\* it is an error envelope whose message names the action.
C13_FaultsNameTheAction ==
    Dispatched
    => /\ tool_response.status \in {"success", "error"}
       /\ ( \/ tool_name \notin tools
            \/ handler_exception(restaurants, tool_name, parameters).raised )
          => /\ tool_response.status = "error"
             /\ Names(tool_response.message, tool_name)

(***************************************************************************)
(* Claims about reservations and their status (Spec).                      *)
(***************************************************************************)

\* C18: a successful make_reservation appends exactly one reservation, with
\* status confirmed and the requested restaurant, user, date, time and party
\* size, and its result carries as reservation_id the integer id the store
\* gave that record, together with the record.
C18_MakeReservationReturnsIdentity ==
    [][ ( /\ tool_name' = "make_reservation"
          /\ tool_response'.status = "success"
          /\ Has(tool_response'.data, "reservation") )
        => /\ Len(reservations') = Len(reservations) + 1
           /\ SubSeq(reservations', 1, Len(reservations)) = reservations
           /\ LET stored == reservations'[Len(reservations')]
                  data == tool_response'.data
              IN /\ stored.status = "confirmed"
                 /\ \A field \in required_fields : stored[field] = parameters'[field]
                 /\ \A field \in required_fields :
                        data.reservation[field] = parameters'[field]
                 /\ IsInt(data.reservation_id)
                 /\ data.reservation_id = stored.id ]_vars

\* C19: the only status change of a reservation is confirmed to cancelled;
\* a cancelled reservation never becomes confirmed again.
C19_CancelledIsTerminal ==
    [][ \A i \in 1..Len(reservations) :
            /\ i <= Len(reservations')
            /\ reservations'[i].status # reservations[i].status
                   => /\ reservations[i].status = "confirmed"
                      /\ reservations'[i].status = "cancelled" ]_vars

\* the reservation a cancellation with the bag p addresses in the store rs
Target(rs, p) ==
    IF TruthyInt(p, "reservation_id") THEN get_reservation(rs, p.reservation_id)
    ELSE None

\* C20: a cancellation of a reservation that is cancelled already, or of an
\* id the store does not hold, leaves every record as it was; cancelling
\* again after any cancellation changes nothing.
C20_CancelIsIdempotent ==
    [][ tool_name' = "cancel_reservation"
        => /\ ( \/ Target(reservations, parameters') = None
                \/ Target(reservations, parameters').status = "cancelled" )
              => reservations' = reservations
           /\ cancel_reservation(reservations', parameters').reservations
                  = reservations' ]_vars

\* a cancellation has just addressed an id that a non-empty store does not
\* hold
C20_Witness ==
    /\ tool_name = "cancel_reservation"
    /\ TruthyInt(parameters, "reservation_id")
    /\ reservations # <<>>
    /\ get_reservation(reservations, parameters.reservation_id) = None
    /\ tool_response.status = "success"

(***************************************************************************)
(* Claims about the rendering of results (SpecAgent).                      *)
(***************************************************************************)

\* C17: when a directive is dispatched the reply is a function of the result
\* envelope alone: whatever other model output would have led to the same
\* envelope would have led to the same reply; and the envelope of an empty
\* restaurant list yields the fixed no-restaurants-found message.
C17_ReplyDependsOnEnvelopeOnly ==
    [][ ( /\ conversation_history' # conversation_history
          /\ tool_name' \notin ({"none"} \cup ApiNames) )
        => /\ \A other \in LLMOutputs :
                  LET alt == dispatch(restaurants, reservations, other,
                                      parameters'.user_info)
                  IN ( /\ alt.last.tool_name # "none"
                       /\ alt.last.tool_response = tool_response' )
                     => alt.outcome = outcome'
           /\ tool_response' = [status |-> "success", data |-> [restaurants |-> <<>>]]
                  => outcome' = Returned(Rendered("no restaurants found", <<>>)) ]_vars

\* a search that matched nothing was answered with the fixed message, and
\* the model output that led to it carried text of its own
C17_Witness ==
    /\ tool_name = "search_restaurants"
    /\ tool_response = [status |-> "success", data |-> [restaurants |-> <<>>]]
    /\ outcome = Returned(Rendered("no restaurants found", <<>>))
    /\ llm_response[1].t = "text"

(***************************************************************************)
(* Claims about the chat endpoint (SpecChat).                              *)
(***************************************************************************)

\* the turns at the last k positions of the log h, in log order
LastTurns(h, k) ==
    LET first == IF Len(h) > k THEN Len(h) - k ELSE 0
    IN [i \in 1..(Len(h) - first) |-> h[first + i]]

\* C14: the prompt built for a message shows, of the log, exactly its 5 most
\* recent turns in log order, followed by the line of the message; building
\* it leaves the log alone, and no step ever changes or drops a turn the log
\* holds, so a turn that has left the window is never shown again.
C14_PromptShowsLastFiveTurns ==
    [][ /\ Len(conversation_history') >= Len(conversation_history)
        /\ SubSeq(conversation_history', 1, Len(conversation_history))
               = conversation_history
        /\ \A n \in ChatIds :
               (stage[n] = "appended" /\ stage'[n] = "prompted")
               => /\ conversation_history' = conversation_history
                  /\ Len(prompt'.conversation)
                         = Len(LastTurns(conversation_history, 5)) + 1
                  /\ \A i \in 1..Len(LastTurns(conversation_history, 5)) :
                         prompt'.conversation[i] =
                             <<LastTurns(conversation_history, 5)[i].role, ": ",
                               LastTurns(conversation_history, 5)[i].content>>
                  /\ prompt'.conversation[Len(prompt'.conversation)]
                         = <<"user", ": ", message>> ]_vars

\* a prompt has been built from a log of more than 5 turns, so that the
\* oldest turns are stored but not shown
C14_Witness ==
    /\ \E n \in ChatIds : stage[n] = "prompted"
    /\ Len(conversation_history) > 5
    /\ Len(prompt.conversation) = 6
    /\ prompt.conversation[1]
           # <<conversation_history[1].role, ": ", conversation_history[1].content>>

\* C15: messages are processed strictly one after another: a step of one
\* message's handler (the append of its user turn, the prompt build, the
\* model call) happens only when every other message either has not begun
\* or has had its reply produced, appended to the log and returned.
C15_OneMessageAtATime ==
    [][ \A n \in ChatIds :
            (stage'[n] # stage[n] /\ stage'[n] \in {"appended", "prompted", "called"})
            => \A m \in ChatIds \ {n} :
                   stage[m] \in {"absent", "waiting", "replied"} ]_vars

\* the category of the failure of the last model call
FailureCategory ==
    IF llm_result = NotCalled THEN "config-missing"
    ELSE IF llm_result.kind = "http_error" /\ llm_result.status_code = 401
    THEN "auth-failed"
    ELSE IF llm_result.kind = "http_error" /\ llm_result.status_code = 400
    THEN "malformed-request"
    ELSE "generic"

\* the four fixed apology texts
FixedApology ==
    [c \in {"config-missing", "auth-failed", "malformed-request", "generic"} |->
        CASE c = "config-missing" -> ConfigApology
          [] c = "auth-failed" -> AuthApology
          [] c = "malformed-request" -> FormatApology
          [] c = "generic" -> ConnectApology]

\* C16: every failure of the model call is answered with one of four fixed
\* apology texts, chosen by the category of the failure alone, and holding
\* no text taken from the underlying error.
C16_FourFixedApologies ==
    (llm_result # None /\ llm_result.kind # "completion")
    => llm_response = FixedApology[FailureCategory]

(***************************************************************************)
(* C21: update_user_preferences(user_id, P) on an existing user reports    *)
(* success and leaves that user's stored preferences equal to exactly P,   *)
(* every other user being untouched; on an unknown user it returns an      *)
(* error and changes nothing.  Stated of every preference update step.     *)
(***************************************************************************)
C21_PreferencesReplaced ==
    [][(tool_name' = "update_user_preferences" /\ TruthyInt(parameters', "user_id"))
        => IF get_user(users, parameters'.user_id) # None
           THEN /\ tool_response'.status = "success"
                /\ Len(users') = Len(users)
                /\ \A i \in DOMAIN users :
                       IF users[i].id = parameters'.user_id
                       THEN users'[i] = Merge(users[i],
                                              [preferences |-> parameters'.preferences])
                       ELSE users'[i] = users[i]
           ELSE /\ tool_response'.status = "error"
                /\ users' = users]_vars

(***************************************************************************)
(* C22: get_user_reservations(user_id) returns exactly the reservations of *)
(* that user that are not cancelled, each carrying its restaurant record   *)
(* under "restaurant" when the store holds that restaurant and listed      *)
(* without it when the store does not; the store is left as it was.        *)
(***************************************************************************)
\* what the claim expects to be listed for the stored reservation r
Listed(rests, r) ==
    IF \E i \in DOMAIN rests : rests[i].id = r.restaurant_id
    THEN Merge(r, [restaurant |->
                      rests[CHOOSE i \in DOMAIN rests : rests[i].id = r.restaurant_id]])
    ELSE r

C22_ListsActiveReservations ==
    [][(tool_name' = "get_user_reservations" /\ TruthyInt(parameters', "user_id"))
        => LET mine == {i \in DOMAIN reservations :
                           /\ reservations[i].user_id = parameters'.user_id
                           /\ reservations[i].status # "cancelled"}
               listed == tool_response'.data.reservations
           IN /\ tool_response'.status = "success"
              /\ Len(listed) = Cardinality(mine)
              /\ {listed[k] : k \in DOMAIN listed}
                     = {Listed(restaurants, reservations[i]) : i \in mine}
              /\ restaurants' = restaurants
              /\ users' = users
              /\ reservations' = reservations]_vars

\* a lookup that lists a reservation without a restaurant record while a
\* cancelled reservation of the same user stays out
C22_Witness ==
    /\ tool_name = "get_user_reservations"
    /\ tool_response.status = "success"
    /\ \E k \in DOMAIN tool_response.data.reservations :
           ~Has(tool_response.data.reservations[k], "restaurant")
    /\ \E i \in DOMAIN reservations :
           /\ reservations[i].user_id = parameters.user_id
           /\ reservations[i].status = "cancelled"

(***************************************************************************)
(* C23: search_restaurants returns the restaurants that satisfy every      *)
(* filter supplied (cuisine and location equal ignoring case, price tier   *)
(* equal, every requested feature listed), in storage order, cut to the    *)
(* first 10; a restaurant failing a supplied filter is never returned.     *)
(***************************************************************************)
\* r satisfies every filter the bag p supplies
Satisfies(r, p) ==
    /\ Has(p, "cuisine") => lower(r.cuisine) = lower(p.cuisine)
    /\ Has(p, "location") => lower(r.location) = lower(p.location)
    /\ Has(p, "price_range") => r.price_range = p.price_range
    /\ Has(p, "features") => \A f \in p.features : f \in r.features

C23_SearchFiltersInOrder ==
    tool_name = "search_restaurants"
        => LET hits == {i \in DOMAIN restaurants : Satisfies(restaurants[i], parameters)}
               found == tool_response.data.restaurants
               \* the position in the store of the k-th hit
               nth(k) == CHOOSE i \in hits : Cardinality({j \in hits : j <= i}) = k
           IN /\ tool_response.status = "success"
              /\ Len(found) = IF Cardinality(hits) < 10 THEN Cardinality(hits) ELSE 10
              /\ \A k \in DOMAIN found : found[k] = restaurants[nth(k)]

\* a search by cuisine that leaves out a restaurant of another cuisine and
\* cuts more than ten matches down to ten
C23_Witness ==
    /\ tool_name = "search_restaurants"
    /\ Has(parameters, "cuisine")
    /\ Len(tool_response.data.restaurants) = 10
    /\ Cardinality({i \in DOMAIN restaurants : Satisfies(restaurants[i], parameters)}) > 10
    /\ \E i \in 1..10 : ~Satisfies(restaurants[i], parameters)

(***************************************************************************)
(* C24: the similarity index reflects the current restaurant list whenever *)
(* a recommendation is computed: when get_recommendations or               *)
(* get_similar_restaurants has run, the index is the one built from the    *)
(* restaurants the store holds, those added since the last build included. *)
(***************************************************************************)
C24_IndexFollowsStore ==
    [][tool_name' \in {"get_recommendations", "get_similar_restaurants"}
        => /\ restaurant_ids' = [i \in 1..Len(restaurants') |-> restaurants'[i].id]
           /\ restaurant_vectors' = update_vectors(restaurants').restaurant_vectors]_vars

(***************************************************************************)
(* C25: get_similar_restaurants never returns the target restaurant        *)
(* itself, and for a restaurant_id that is not in the index it returns an  *)
(* empty sequence and raises no error.                                     *)
(***************************************************************************)
C25_SimilarExcludesTarget ==
    [][tool_name' = "get_similar_restaurants"
        => LET target == parameters'.restaurant_id IN
           IF /\ \A i \in DOMAIN restaurants' : restaurants'[i].id # target
              /\ \A i \in DOMAIN restaurant_ids' : restaurant_ids'[i] # target
           THEN tool_response' = [raised |-> FALSE, value |-> <<>>]
           ELSE ~tool_response'.raised
                    => \A k \in DOMAIN tool_response'.value :
                           tool_response'.value[k].id # target]_vars

\* The profile a get_recommendations call resolves to: the stored profile
\* of the user it names, each field replaced by the value the call passes.
\* The bag passes the cuisine under "cuisine".
Passed(p) ==
    LET preferences == IF Has(p, "preferences") THEN p.preferences ELSE <<>>
    IN [f \in {g \in PreferenceFields :
                  Has(preferences, IF g = "cuisine_preference" THEN "cuisine" ELSE g)} |->
           preferences[IF f = "cuisine_preference" THEN "cuisine" ELSE f]]

StoredProfile(us, p) ==
    IF Has(p, "user_id") /\ \E i \in DOMAIN us : us[i].id = p.user_id
    THEN (CHOOSE u \in {us[i] : i \in DOMAIN us} : u.id = p.user_id).preferences
    ELSE <<>>

Profile(us, p) ==
    [f \in (DOMAIN StoredProfile(us, p)) \cup (DOMAIN Passed(p)) |->
        IF Has(Passed(p), f) THEN Passed(p)[f] ELSE StoredProfile(us, p)[f]]

\* the first `limit` restaurants when the restaurants at the positions of
\* `ids` are ordered by descending `score`, the lower position first among
\* equals
TopBy(rests, ids, score, limit) ==
    LET n == Len(ids)
        before(i, j) == score[i] > score[j] \/ (score[i] = score[j] /\ i < j)
        at(k) == CHOOSE i \in 1..n : Cardinality({j \in 1..n : before(j, i)}) = k - 1
    IN [k \in 1..(IF n < limit THEN n ELSE limit) |-> get_restaurant(rests, ids[at(k)])]

(***************************************************************************)
(* C26: with a non-empty profile, get_recommendations returns the `limit`  *)
(* restaurants of the highest similarity score in descending score order,  *)
(* the lower position in the index first among equal scores.               *)
(***************************************************************************)
C26_RanksBySimilarity ==
    [][(tool_name' = "get_recommendations" /\ Profile(users, parameters') # <<>>)
        => /\ tool_response'.status = "success"
           /\ tool_response'.data.recommendations
                  = TopBy(restaurants', restaurant_ids',
                          cosine_similarity(preferences_text(Profile(users, parameters')),
                                            restaurant_vectors'),
                          DefaultLimit)]_vars

(***************************************************************************)
(* C27: when the resolved profile is empty, get_recommendations returns    *)
(* the `limit` restaurants of the highest rating in descending rating      *)
(* order, equal ratings in storage order.                                  *)
(***************************************************************************)
C27_EmptyProfileRanksByRating ==
    [][(tool_name' = "get_recommendations" /\ Profile(users, parameters') = <<>>)
        => /\ tool_response'.status = "success"
           /\ tool_response'.data.recommendations
                  = TopBy(restaurants',
                          [i \in 1..Len(restaurants') |-> restaurants'[i].id],
                          [i \in 1..Len(restaurants') |-> restaurants'[i].rating],
                          DefaultLimit)]_vars

(***************************************************************************)
(* C28: get_recommendations answers the query of the resolved profile: the *)
(* stored profile of user_id with every field the call passes put in place *)
(* of the stored one; the stored profile is left as it was.                *)
(***************************************************************************)
C28_ExplicitFieldsOverrideStored ==
    [][tool_name' = "get_recommendations"
        => LET profile == Profile(users, parameters')
               by_rating == [i \in 1..Len(restaurants') |-> restaurants'[i].rating]
               by_similarity == cosine_similarity(preferences_text(profile),
                                                  restaurant_vectors')
           IN /\ users' = users
              /\ tool_response'.status = "success"
              /\ tool_response'.data.recommendations
                     = TopBy(restaurants', restaurant_ids',
                             IF profile = <<>> THEN by_rating ELSE by_similarity,
                             DefaultLimit)]_vars

(***************************************************************************)
(* C29: recommendation ranking is deterministic: while the store stays as  *)
(* it is, a get_recommendations call returns what an earlier call with the *)
(* same inputs returned, whatever calls were made in between.              *)
(***************************************************************************)
C29_RepeatedCallSameAnswer ==
    [][(/\ tool_name' = "get_recommendations"
        /\ recommended # None
        /\ recommended.parameters = parameters')
        => tool_response' = recommended.response]_vars

\* a remembered call was repeated with the same inputs and listed a
\* restaurant again
C29_Witness ==
    /\ tool_name = "get_recommendations"
    /\ recommended # None
    /\ recommended.repeated
    /\ recommended.parameters = parameters
    /\ tool_response.status = "success"
    /\ tool_response.data.recommendations # <<>>

(***************************************************************************)
(* C30: after any sequence of user creations, through the API or through   *)
(* the store's add_user, no two users in the store have the same email.    *)
(***************************************************************************)
C30_EmailsUnique ==
    \A i, j \in DOMAIN users : i # j => users[i].email # users[j].email

\* the required fields in the order of the list in tools.py:140
RequiredOrder == <<"restaurant_id", "user_id", "date", "time", "party_size">>

\* the fields of RequiredOrder, from position i on, that the bag p lacks
RECURSIVE MissingFrom(_, _)
MissingFrom(p, i) ==
    IF i > Len(RequiredOrder) THEN <<>>
    ELSE IF RequiredOrder[i] \in DOMAIN p THEN MissingFrom(p, i + 1)
    ELSE <<RequiredOrder[i]>> \o MissingFrom(p, i + 1)

\* Python's text of a list of strings: ['a', 'b']
RECURSIVE ReprItems(_)
ReprItems(fields) ==
    IF Len(fields) = 0 THEN ""
    ELSE IF Len(fields) = 1 THEN "'" \o fields[1] \o "'"
    ELSE "'" \o fields[1] \o "', " \o ReprItems(Tail(fields))
Repr(fields) == "[" \o ReprItems(fields) \o "]"

\* C31: make_reservation called without one or more of the five required
\* fields returns an error envelope whose message lists the fields that are
\* missing (those and no others), and leaves the reservation list as it was.
C31_MissingFieldsListed ==
    [][ (tool_name' = "make_reservation"
            /\ ~(required_fields \subseteq DOMAIN parameters'))
        => /\ tool_response'.status = "error"
           /\ tool_response'.message
                  = "Missing required fields: " \o Repr(MissingFrom(parameters', 1))
           /\ reservations' = reservations ]_vars

\* the client that sent the n-th chat request: two clients, each holding
\* one conversation, take turns posting
Client(n) == IF n % 2 = 1 THEN "first" ELSE "second"

\* C32: conversations served by the same process do not see each other's
\* turns: the prompt built for a chat request shows no user turn that was
\* sent by the client of a different conversation.
C32_NoCrossTalk ==
    \A n \in ChatIds :
        stage[n] = "prompted"
        => \A i \in 1..Len(prompt.conversation) :
               \A m \in ChatIds :
                   prompt.conversation[i] = Line("user", ChatText(m))
                   => Client(m) = Client(n)

\* C33: when a parsed directive is dispatched, the bag given to the handler
\* is the directive's parameters plus the caller's context under the key
\* user_info: a user_info of the directive is replaced by the caller's, and
\* every other parameter is passed unchanged.
C33_BagIsParametersPlusUserInfo ==
    [][ \A text \in Messages : \A user_info \in UserInfos : \A answer \in DirectiveOutputs :
            (ProcessMessage(text, user_info, answer) /\ tool_name' # "none")
            => LET given == extract_tool_call(answer).value.parameters.value IN
               /\ DOMAIN parameters' = (DOMAIN given) \cup {"user_info"}
               /\ parameters'.user_info = user_info
               /\ \A k \in (DOMAIN given) \ {"user_info"} :
                      parameters'[k] = given[k] ]_vars

\* a directive that carried its own user_info was dispatched, and the
\* handler was given the caller's context instead
C33_Witness ==
    /\ tool_name = "get_user_reservations"
    /\ Has(parameters, "user_info")
    /\ parameters.user_info = [id |-> 1, name |-> "Ann"]
    /\ parameters.user_id = 1
    /\ Truthy(extract_tool_call(llm_response))
    /\ Has(extract_tool_call(llm_response).value.parameters.value, "user_info")
    /\ extract_tool_call(llm_response).value.parameters.value.user_info
           = [id |-> 8, name |-> "Eve"]

\* a model output cut off where its second directive begins
FirstDirectiveOnly(text) ==
    IF FirstIndex(text, "mark") = 0 THEN text
    ELSE SubSeq(text, 1, FirstIndex(text, "mark"))
             \o Before(After(text, "mark"), "mark")

\* the number of reservation records a step added or changed
Touched(before, after) ==
    Cardinality({i \in 1..Len(after) : i > Len(before) \/ after[i] # before[i]})

\* C37: a process_message call works from one model output and dispatches
\* at most one action: the first directive of the output is the only one
\* executed, so the call does what it would have done had the output ended
\* before its second directive, and it adds or changes at most one
\* reservation.
C37_OnlyFirstDirectiveRuns ==
    [][ \A text \in Messages : \A user_info \in UserInfos : \A answer \in DirectiveOutputs :
            ProcessMessage(text, user_info, answer)
            => LET d == dispatch(restaurants, reservations,
                                 FirstDirectiveOnly(answer), user_info) IN
               /\ llm_response' = answer
               /\ tool_name' = d.last.tool_name
               /\ parameters' = d.last.parameters
               /\ tool_response' = d.last.tool_response
               /\ reservations' = d.reservations
               /\ d.outcome.kind = outcome'.kind
               /\ Len(reservations') >= Len(reservations)
               /\ Touched(reservations, reservations') <= 1 ]_vars

\* an output with two directives was processed: its first directive, a
\* cancellation, was carried out and its second, a booking, was not
C37_Witness ==
    /\ FirstDirectiveOnly(llm_response) # llm_response
    /\ tool_name = "cancel_reservation"
    /\ Len(reservations) = 1
    /\ reservations[1].status = "cancelled"
    /\ outcome.kind = "returned"

\* C34: every reservation in the store has a party size that is a positive
\* integer: make_reservation with a party size of zero or less stores
\* nothing.
C34_PartySizesPositive ==
    \A i \in 1..Len(reservations) : reservations[i].party_size >= 1

\* C35: with make_reservation and cancel_reservation called one at a time,
\* every party size at least 1 and nothing else writing the store, the
\* party sizes of the confirmed reservations of every slot sum to at most
\* the restaurant's capacity.
C35_ConfirmedWithinCapacity ==
    (\A i \in 1..Len(reservations) : reservations[i].party_size >= 1)
    => \A restaurant_id \in {1, 2} :
           SumPartySize(ConfirmedAt(reservations, restaurant_id, "2024-06-01", "19:00"))
               <= get_restaurant(restaurants, restaurant_id).capacity

\* a slot is booked out by reservations of positive size, and a further
\* booking for it has just been refused
C35_Witness ==
    /\ \A i \in 1..Len(reservations) : reservations[i].party_size >= 1
    /\ Len(reservations) = 2
    /\ SumPartySize(ConfirmedAt(reservations, 1, "2024-06-01", "19:00")) = 3
    /\ tool_name = "make_reservation"
    /\ parameters.restaurant_id = 1
    /\ parameters.party_size >= 1
    /\ tool_response.status = "success"
    /\ Has(tool_response.data, "available")
    /\ tool_response.data.available = FALSE

\* C39: every reservation in the store references a restaurant and a user
\* that exist in the store.
C39_ReferencesResolve ==
    \A i \in 1..Len(reservations) :
        /\ get_restaurant(restaurants, reservations[i].restaurant_id) # None
        /\ get_user(users, reservations[i].user_id) # None

\* C36: for any interleaving of two concurrent add_reservation calls, once
\* both have written, the store holds both new reservations under distinct
\* ids: no write is lost and no id is assigned twice.
C36_BothWritesKept ==
    (\A c \in Callers : Created(c))
    => /\ Len(reservations) = Len(seed) + 2
       /\ \A i, j \in 1..Len(reservations) :
              i # j => reservations[i].id # reservations[j].id
       /\ \A c, d \in Callers :
              c # d => ret[c].data.reservation_id.id # ret[d].data.reservation_id.id
       /\ \A c \in Callers :
              \E i \in 1..Len(reservations) :
                  reservations[i] = ret[c].data.reservation_id

\* C38: the user turn is in the log before the prompt is built, so the
\* prompt shows the current utterance twice, as the newest turn of the
\* window and as the appended line of the message, and before them at most
\* 4 turns: the most recent ones that precede the current message.
C38_UtteranceShownTwice ==
    \A n \in ChatIds :
        stage[n] = "prompted"
        => LET shown == prompt.conversation
               earlier == SubSeq(conversation_history, 1, Len(conversation_history) - 1)
               kept == LastTurns(earlier, 4)
           IN /\ Len(shown) >= 2
              /\ shown[Len(shown)] = <<"user", ": ", ChatText(n)>>
              /\ shown[Len(shown) - 1] = <<"user", ": ", ChatText(n)>>
              /\ Len(shown) - 2 = Len(kept)
              /\ Len(kept) <= 4
              /\ \A i \in 1..Len(kept) :
                     shown[i] = <<kept[i].role, ": ", kept[i].content>>

\* a prompt was built for a message that more than 4 turns precede: it
\* shows 4 of them and the message twice
C38_Witness ==
    \E n \in ChatIds :
        /\ stage[n] = "prompted"
        /\ Len(conversation_history) > 5
        /\ Len(prompt.conversation) = 6
        /\ prompt.conversation[5] = prompt.conversation[6]
        /\ prompt.conversation[6] = <<"user", ": ", ChatText(n)>>

====
